---- MODULE Spec2Model ----
(***************************************************************************)
(* Model of commit-buddy's interactive terminal front-end                  *)
(* (src/src/interactive.rs): the InteractiveCli struct, the event loop of  *)
(* run(), the key handlers, and the parsing of `git status --porcelain`    *)
(* output into the working-tree status and the file list.                  *)
(*                                                                         *)
(* Text is modelled as a sequence of one-character strings, so that        *)
(* slicing (&line[0..2], &line[3..]) and line splitting are computed, not  *)
(* assumed.  Option<usize> is a sequence of length 0 (None) or 1 (Some).   *)
(***************************************************************************)
EXTENDS Integers, Sequences, FiniteSets, TLC

VARIABLES
    cli,              \* the InteractiveCli struct (all its fields)
    repo,             \* the version-control backend as the program sees it
    terminal,         \* raw mode / alternate screen of the real terminal
    pc,               \* position of the run() task
    task,             \* locals of a handler suspended on a collaborator call
    calls,            \* collaborator calls issued by the last step
    key_event,        \* the key press the current iteration is handling
    tree_diffs,       \* what diff_tree_to_tree yields in the repository
    diff_info         \* the Result<DiffInfo> of a diff extraction of git.rs

vars == <<cli, repo, terminal, pc, task, calls, key_event, tree_diffs, diff_info>>

\* the variables of the diff extraction, which the terminal front-end of
\* this model does not follow
diff_vars == <<tree_diffs, diff_info>>

-----------------------------------------------------------------------------
(* Bounds of the model *)

\* number of lines of an arbitrary status text (scanner specification)
MaxLines == 2
\* how far a cursor may run beyond the list before the model stops following it
MaxStray == 2

\* usize arithmetic wraps modulo 2^64 in a release build; TLC integers are
\* 32 bits wide, so the model wraps modulo 2^30, far above every list length.
UsizeModulus == 2^30

-----------------------------------------------------------------------------
(* Option<usize> and checked/wrapping usize subtraction *)

None == <<>>
Some(n) == <<n>>
unwrap_or(opt, d) == IF opt = None THEN d ELSE opt[1]

\* a - b on usize: None is the overflow panic of a build with overflow checks
\* (debug); a build without them (release) wraps
usize_sub(a, b, checks) ==
    IF a >= b THEN Some(a - b)
    ELSE IF checks THEN None
    ELSE Some(a - b + UsizeModulus)

-----------------------------------------------------------------------------
(* Text *)

NL == "\n"
CR == "\r"
SP == " "

RECURSIVE lines(_)
\* str::lines(): split at "\n", drop one "\r" before each "\n", and yield no
\* final empty line after a trailing newline
lines(text) ==
    IF text = <<>> THEN <<>>
    ELSE LET newlines == { i \in 1..Len(text) : text[i] = NL }
         IN  IF newlines = {} THEN <<text>>
             ELSE LET end  == CHOOSE i \in newlines : \A j \in newlines : i <= j
                      line == IF end > 1 /\ text[end - 1] = CR
                              THEN SubSeq(text, 1, end - 2)
                              ELSE SubSeq(text, 1, end - 1)
                  IN  <<line>> \o lines(SubSeq(text, end + 1, Len(text)))

RECURSIVE join_lines(_)
\* the text a command prints for a sequence of lines: each line ends in "\n"
join_lines(ls) ==
    IF ls = <<>> THEN <<>>
    ELSE Head(ls) \o <<NL>> \o join_lines(Tail(ls))

-----------------------------------------------------------------------------
(* Status scanning: update_git_status and load_file_items *)

\* the arm of `match status` that update_git_status takes (lines 864-873)
status_match_wrong_both(status) ==
    CASE status \in {<<"A", SP>>, <<"M", SP>>, <<"D", SP>>, <<"A", "M">>, <<"M", "M">>}
                                           -> "staged"
      [] status \in {<<SP, "M">>, <<SP, "D">>} -> "unstaged"
      [] status = <<"?", "?">>                 -> "untracked"
      [] OTHER                                 -> "ignored"

status_match(status) ==
    CASE status \in {<<"A", SP>>, <<"M", SP>>, <<"D", SP>>} -> "staged"
      [] status \in {<<SP, "M">>, <<SP, "D">>}                -> "unstaged"
      [] status = <<"?", "?">>                                -> "untracked"
      [] status \in {<<"A", "M">>, <<"M", "M">>}              -> "both"
      [] OTHER                                                -> "ignored"

\* &line[0..2]
status_slice_shifted(line) == SubSeq(line, 2, 3)

status_slice(line) == SubSeq(line, 1, 2)

\* &line[3..]: panics when the line is shorter than 3 bytes
file_slice(line) == SubSeq(line, 4, Len(line))

\* one iteration of the `for line in status_output.lines()` loop of
\* update_git_status; gs is the GitStatus being filled, panicked is sticky
scan_status_line(acc, line) ==
    IF acc.panicked \/ Len(line) < 2 THEN acc
    ELSE IF Len(line) < 3 THEN [acc EXCEPT !.panicked = TRUE]
    ELSE LET status == status_slice(line)
             file   == file_slice(line)
             arm    == status_match(status)
         IN  CASE arm = "staged"    -> [acc EXCEPT !.staged_files = Append(@, file)]
               [] arm = "unstaged"  -> [acc EXCEPT !.unstaged_files = Append(@, file)]
               [] arm = "untracked" -> [acc EXCEPT !.untracked_files = Append(@, file)]
               [] arm = "both"      -> [acc EXCEPT !.staged_files = Append(@, file),
                                                   !.unstaged_files = Append(@, file)]
               [] OTHER             -> acc

RECURSIVE scan_status_lines(_, _, _)
scan_status_lines(ls, i, acc) ==
    IF i > Len(ls) THEN acc
    ELSE scan_status_lines(ls, i + 1, scan_status_line(acc, ls[i]))

\* the lists after clear() and the loop over the lines of the status text
scan_status(text) ==
    scan_status_lines(lines(text), 1,
        [staged_files |-> <<>>, unstaged_files |-> <<>>,
         untracked_files |-> <<>>, panicked |-> FALSE])

\* "Clean working directory" or "<n> files changed"
status_text(total_changes) ==
    IF total_changes = 0 THEN "Clean working directory"
    ELSE ToString(total_changes) \o " files changed"

file_status_match_staged_as_modified(status) ==
    CASE status \in {<<"A", SP>>, <<"M", SP>>, <<"D", SP>>} -> "Modified"
      [] status \in {<<SP, "M">>, <<SP, "D">>}                -> "Modified"
      [] status = <<"?", "?">>                                -> "Untracked"
      [] status \in {<<"A", "M">>, <<"M", "M">>}              -> "Staged"
      [] OTHER                                                -> "continue"

file_status_match_deleted(status) ==
    CASE status \in {<<"A", SP>>, <<"M", SP>>}   -> "Staged"
      [] status = <<SP, "M">>                     -> "Modified"
      [] status \in {<<"D", SP>>, <<SP, "D">>}    -> "Deleted"
      [] status = <<"?", "?">>                    -> "Untracked"
      [] status \in {<<"A", "M">>, <<"M", "M">>}  -> "Staged"
      [] OTHER                                    -> "continue"

file_status_match_skips_both(status) ==
    CASE status \in {<<"A", SP>>, <<"M", SP>>, <<"D", SP>>} -> "Staged"
      [] status \in {<<SP, "M">>, <<SP, "D">>}                -> "Modified"
      [] status = <<"?", "?">>                                -> "Untracked"
      [] OTHER                                                -> "continue"

\* the arm of `match status` that load_file_items takes (lines 1110-1116)
file_status_match(status) ==
    CASE status \in {<<"A", SP>>, <<"M", SP>>, <<"D", SP>>} -> "Staged"
      [] status \in {<<SP, "M">>, <<SP, "D">>}                -> "Modified"
      [] status = <<"?", "?">>                                -> "Untracked"
      [] status \in {<<"A", "M">>, <<"M", "M">>}              -> "Staged"
      [] OTHER                                                -> "continue"

load_file_line(acc, line) ==
    IF acc.panicked \/ Len(line) < 2 THEN acc
    ELSE IF Len(line) < 3 THEN [acc EXCEPT !.panicked = TRUE]
    ELSE LET status == status_slice(line)
             file   == file_slice(line)
             fs     == file_status_match(status)
         IN  IF fs = "continue" THEN acc
             ELSE [acc EXCEPT !.items =
                      Append(@, [path |-> file, status |-> fs, selected |-> FALSE])]

RECURSIVE load_file_lines(_, _, _)
load_file_lines(ls, i, acc) ==
    IF i > Len(ls) THEN acc
    ELSE load_file_lines(ls, i + 1, load_file_line(acc, ls[i]))

scan_file_items(text) ==
    load_file_lines(lines(text), 1, [items |-> <<>>, panicked |-> FALSE])

-----------------------------------------------------------------------------
(* The version-control backend, seen through `git status --porcelain`.     *)
(* A git command rewrites the two-character code of the lines it touches.  *)

\* `git add <path>`: the worktree state of the path goes to the index
git_add_code(c) ==
    CASE c = <<SP, "M">>  -> <<"M", SP>>
      [] c = <<"?", "?">> -> <<"A", SP>>
      [] c = <<"M", "M">> -> <<"M", SP>>
      [] c = <<"A", "M">> -> <<"A", SP>>
      [] c = <<SP, "D">>  -> <<"D", SP>>
      [] OTHER            -> c

\* `git reset HEAD -- <path>`: the index entry of the path goes back to HEAD
git_reset_code(c) ==
    CASE c = <<"M", SP>>  -> <<SP, "M">>
      [] c = <<"A", SP>>  -> <<"?", "?">>
      [] c = <<"D", SP>>  -> <<SP, "D">>
      [] c = <<"M", "M">> -> <<SP, "M">>
      [] c = <<"A", "M">> -> <<"?", "?">>
      [] OTHER            -> c

\* a commit of the index: staged-only paths become clean (no line), paths
\* with further worktree changes stay listed as modified
git_commit_code(c) ==
    CASE c \in {<<"M", SP>>, <<"A", SP>>, <<"D", SP>>} -> <<>>
      [] c \in {<<"M", "M">>, <<"A", "M">>}            -> <<SP, "M">>
      [] OTHER                                         -> c

AllPaths == <<"*">>

\* the code rewrite of one git command
rewrite_code(cmd, c) ==
    CASE cmd = "add"    -> git_add_code(c)
      [] cmd = "reset"  -> git_reset_code(c)
      [] cmd = "commit" -> git_commit_code(c)
      [] OTHER          -> c

RECURSIVE rewrite_lines(_, _, _)
\* apply a command to the lines whose path is `path` (AllPaths: every line)
rewrite_lines(ls, path, cmd) ==
    IF ls = <<>> THEN <<>>
    ELSE LET l    == Head(ls)
             rest == rewrite_lines(Tail(ls), path, cmd)
         IN  IF Len(l) >= 3 /\ (path = AllPaths \/ SubSeq(l, 4, Len(l)) = path)
             THEN LET c == rewrite_code(cmd, SubSeq(l, 1, 2))
                  IN  IF c = <<>> THEN rest
                      ELSE <<c \o SubSeq(l, 3, Len(l))>> \o rest
             ELSE <<l>> \o rest

git_add(text, path)   == join_lines(rewrite_lines(lines(text), path, "add"))
git_reset(text, path) == join_lines(rewrite_lines(lines(text), path, "reset"))
git_commit(text)      == join_lines(rewrite_lines(lines(text), AllPaths, "commit"))

\* the index differs from HEAD: some line has a non-blank, non-"?" index code
has_staged_changes(text) ==
    \E i \in 1..Len(lines(text)) :
        LET l == lines(text)[i]
        IN  Len(l) >= 3 /\ l[1] \notin {SP, "?"}

-----------------------------------------------------------------------------
(* Execution context of a handler: the struct, the backend, the calls made *)
(* so far, the result so far ("ok", "err" = a `?` returned Err, "panic"),  *)
(* and the oracle of the step: which call fails, whether git exits 0, and  *)
(* whether the build checks arithmetic overflow.                           *)

Ctx(fail_at, exit_ok, checks) ==
    [cli |-> cli, repo |-> repo, calls |-> <<>>, res |-> "ok",
     fail_at |-> fail_at, exit_ok |-> exit_ok, checks |-> checks,
     susp |-> "none", title |-> "", content |-> <<>>]

\* one collaborator call (a spawned git command, a git2 call, an API call);
\* its Result is Err when the oracle says this call fails
call(x, cmd, arg) ==
    [x EXCEPT !.calls = Append(@, [cmd |-> cmd, arg |-> arg, msg |-> ""]),
              !.res   = IF Len(x.calls) + 1 = x.fail_at THEN "err" ELSE "ok"]

NoArg == <<>>

new_on_second_tab(config) ==
    [config             |-> config,
     git_status         |-> [branch |-> "unknown", status |-> "unknown",
                             staged_files |-> <<>>, unstaged_files |-> <<>>,
                             untracked_files |-> <<>>],
     list_state         |-> None,
     current_tab        |-> 1,
     should_quit        |-> FALSE,
     commit_suggestions |-> <<>>,
     commit_list_state  |-> None,
     in_commit_mode     |-> FALSE,
     in_file_mode       |-> FALSE,
     file_items         |-> <<>>,
     file_list_state    |-> None,
     in_display_mode    |-> FALSE,
     display_content    |-> <<>>,
     display_title      |-> "",
     in_loading_mode    |-> FALSE,
     loading_message    |-> "",
     loading_spinner    |-> 0]

\* InteractiveCli::new
new(config) ==
    [config             |-> config,
     git_status         |-> [branch |-> "unknown", status |-> "unknown",
                             staged_files |-> <<>>, unstaged_files |-> <<>>,
                             untracked_files |-> <<>>],
     list_state         |-> None,
     current_tab        |-> 0,
     should_quit        |-> FALSE,
     commit_suggestions |-> <<>>,
     commit_list_state  |-> None,
     in_commit_mode     |-> FALSE,
     in_file_mode       |-> FALSE,
     file_items         |-> <<>>,
     file_list_state    |-> None,
     in_display_mode    |-> FALSE,
     display_content    |-> <<>>,
     display_title      |-> "",
     in_loading_mode    |-> FALSE,
     loading_message    |-> "",
     loading_spinner    |-> 0]

\* the name `git branch --show-current` prints; the model does not follow
\* which branch is checked out
CurrentBranch == "(current branch)"

update_git_status_appends(x) ==
    IF x.res # "ok" THEN x ELSE
    LET x1 == call(x, "git branch --show-current", NoArg)
        x2 == IF x1.res # "ok" THEN x1
              ELSE call([x1 EXCEPT !.cli.git_status.branch = CurrentBranch],
                        "git status --porcelain", NoArg)
        sc == scan_status(x2.repo.porcelain)
    IN  IF x2.res # "ok" THEN x2
        ELSE [x2 EXCEPT !.cli.git_status.staged_files    = @ \o sc.staged_files,
                        !.cli.git_status.unstaged_files  = @ \o sc.unstaged_files,
                        !.cli.git_status.untracked_files = @ \o sc.untracked_files,
                        !.cli.git_status.status =
                            status_text(Len(sc.staged_files) + Len(sc.unstaged_files)
                                            + Len(sc.untracked_files))]

\* InteractiveCli::update_git_status
update_git_status(x) ==
    IF x.res # "ok" THEN x ELSE
    LET x1 == call(x, "git branch --show-current", NoArg)
        x2 == IF x1.res # "ok" THEN x1
              ELSE call([x1 EXCEPT !.cli.git_status.branch = CurrentBranch],
                        "git status --porcelain", NoArg)
        sc == scan_status(x2.repo.porcelain)
        total_changes == Len(sc.staged_files) + Len(sc.unstaged_files)
                         + Len(sc.untracked_files)
    IN  IF x2.res # "ok" THEN x2
        ELSE IF sc.panicked
        THEN [x2 EXCEPT !.cli.git_status.staged_files    = sc.staged_files,
                        !.cli.git_status.unstaged_files  = sc.unstaged_files,
                        !.cli.git_status.untracked_files = sc.untracked_files,
                        !.res = "panic"]
        ELSE [x2 EXCEPT !.cli.git_status.staged_files    = sc.staged_files,
                        !.cli.git_status.unstaged_files  = sc.unstaged_files,
                        !.cli.git_status.untracked_files = sc.untracked_files,
                        !.cli.git_status.status          = status_text(total_changes)]

\* InteractiveCli::load_file_items
load_file_items(x) ==
    IF x.res # "ok" THEN x ELSE
    LET x1 == call([x EXCEPT !.cli.file_items = <<>>], "git status --porcelain", NoArg)
        sc == scan_file_items(x1.repo.porcelain)
    IN  IF x1.res # "ok" THEN x1
        ELSE [x1 EXCEPT !.cli.file_items = sc.items,
                        !.res = IF sc.panicked THEN "panic" ELSE "ok"]

\* a spawned git command whose exit status the code ignores: the backend
\* changes only when the command succeeds
git_run(x, cmd, arg, porcelain) ==
    IF x.res # "ok" THEN x ELSE
    LET x1 == call(x, cmd, arg)
    IN  IF x1.res = "ok" /\ x1.exit_ok
        THEN [x1 EXCEPT !.repo.porcelain = porcelain]
        ELSE x1

-----------------------------------------------------------------------------
(* Main menu *)

\* the three tabs ("Git Operations", "AI Features", "Utilities")
NumTabs == 3

\* InteractiveCli::get_current_menu_items: the table navigation counts
get_current_menu_items(tab) ==
    CASE tab = 0 -> <<"Add files to staging", "Commit changes", "Push to remote",
                      "Pull from remote", "Switch branch", "Merge branch",
                      "View status">>
      [] tab = 1 -> <<"Generate PR description", "Generate unit tests",
                      "Improve commit message", "Interactive commit",
                      "Generate changelog", "Code review">>
      [] tab = 2 -> <<"Refresh status", "Configuration", "Exit">>
      [] OTHER   -> <<>>

\* the menu_items table of render_menu: the labels drawn on screen
render_menu_items(tab) ==
    CASE tab = 0 -> <<"Manage files (f)", "Add files to staging", "Commit changes",
                      "Push to remote", "Pull from remote", "Switch branch",
                      "Merge branch", "View status">>
      [] tab = 1 -> <<"Generate PR description", "Create PR with AI description",
                      "Generate unit tests", "Improve commit message",
                      "Interactive commit", "Generate changelog", "Code review">>
      [] tab = 2 -> <<"Refresh status", "Configuration", "Exit">>
      [] OTHER   -> <<>>

navigate_up_no_wrap(x) ==
    LET current == unwrap_or(x.cli.list_state, 0)
    IN  [x EXCEPT !.cli.list_state = Some(current - 1)]

navigate_down_clamped(x) ==
    LET current   == unwrap_or(x.cli.list_state, 0)
        max_items == Len(get_current_menu_items(x.cli.current_tab))
    IN  IF current < max_items - 1
        THEN [x EXCEPT !.cli.list_state = Some(current + 1)]
        ELSE x

\* InteractiveCli::navigate_up
navigate_up(x) ==
    LET current   == unwrap_or(x.cli.list_state, 0)
        max_items == Len(get_current_menu_items(x.cli.current_tab))
        last      == usize_sub(max_items, 1, x.checks)
    IN  IF current > 0
        THEN [x EXCEPT !.cli.list_state = Some(current - 1)]
        ELSE IF last = None THEN [x EXCEPT !.res = "panic"]
        ELSE [x EXCEPT !.cli.list_state = last]

\* InteractiveCli::navigate_down
navigate_down(x) ==
    LET current   == unwrap_or(x.cli.list_state, 0)
        max_items == Len(get_current_menu_items(x.cli.current_tab))
        last      == usize_sub(max_items, 1, x.checks)
    IN  IF last = None THEN [x EXCEPT !.res = "panic"]
        ELSE IF current < last[1]
        THEN [x EXCEPT !.cli.list_state = Some(current + 1)]
        ELSE [x EXCEPT !.cli.list_state = Some(0)]

next_tab_no_wrap(x) ==
    [x EXCEPT !.cli.current_tab = x.cli.current_tab + 1,
              !.cli.list_state  = Some(0)]

\* InteractiveCli::next_tab
next_tab(x) ==
    [x EXCEPT !.cli.current_tab = (x.cli.current_tab + 1) % NumTabs,
              !.cli.list_state  = Some(0)]

\* InteractiveCli::prev_tab
prev_tab(x) ==
    [x EXCEPT !.cli.current_tab = IF x.cli.current_tab > 0
                                  THEN x.cli.current_tab - 1 ELSE 2,
              !.cli.list_state  = Some(0)]

-----------------------------------------------------------------------------
(* Loading overlay *)

\* spinner frames ("spinner_chars")
SpinnerFrames == 10

start_loading_enters_display(x, message) ==
    [x EXCEPT !.cli.in_loading_mode = TRUE,
              !.cli.loading_message = message,
              !.cli.loading_spinner = 0,
              !.cli.in_display_mode = TRUE]

\* InteractiveCli::start_loading
start_loading(x, message) ==
    [x EXCEPT !.cli.in_loading_mode = TRUE,
              !.cli.loading_message = message,
              !.cli.loading_spinner = 0]

stop_loading_keeps_flag(x) ==
    [x EXCEPT !.cli.loading_message = "",
              !.cli.loading_spinner = 0]

\* InteractiveCli::stop_loading
stop_loading(x) ==
    [x EXCEPT !.cli.in_loading_mode = FALSE,
              !.cli.loading_message = "",
              !.cli.loading_spinner = 0]

\* a handler that reaches its slow collaborator calls: the overlay is switched
\* on and the task is suspended in `pending` until the calls return
suspend(x, pending, message) ==
    [start_loading(x, message) EXCEPT !.susp = pending]

-----------------------------------------------------------------------------
(* Commit selection *)

\* InteractiveCli::start_interactive_commit(all), up to its collaborator calls
start_interactive_commit(x, all) ==
    LET x1 == IF all
              THEN git_run(x, "git add .", NoArg,
                           git_add(x.repo.porcelain, AllPaths))
              ELSE x
    IN  IF x1.res # "ok" THEN x1
        ELSE suspend(x1, "commit", "Generating commit suggestions...")

commit_changes_commits(x) == call(x, "git2 commit", NoArg)

\* InteractiveCli::commit_changes
commit_changes(x) == start_interactive_commit(x, FALSE)

\* InteractiveCli::navigate_commit_up
navigate_commit_up(x) ==
    LET current == unwrap_or(x.cli.commit_list_state, 0)
        last    == usize_sub(Len(x.cli.commit_suggestions), 1, x.checks)
    IN  IF current > 0
        THEN [x EXCEPT !.cli.commit_list_state = Some(current - 1)]
        ELSE IF last = None THEN [x EXCEPT !.res = "panic"]
        ELSE [x EXCEPT !.cli.commit_list_state = last]

navigate_commit_down_no_wrap(x) ==
    [x EXCEPT !.cli.commit_list_state = Some(unwrap_or(x.cli.commit_list_state, 0) + 1)]

\* InteractiveCli::navigate_commit_down
navigate_commit_down(x) ==
    LET current == unwrap_or(x.cli.commit_list_state, 0)
        last    == usize_sub(Len(x.cli.commit_suggestions), 1, x.checks)
    IN  IF last = None THEN [x EXCEPT !.res = "panic"]
        ELSE IF current < last[1]
        THEN [x EXCEPT !.cli.commit_list_state = Some(current + 1)]
        ELSE [x EXCEPT !.cli.commit_list_state = Some(0)]

exit_commit_mode_keeps_list(x) ==
    [x EXCEPT !.cli.in_commit_mode    = FALSE,
              !.cli.commit_list_state = None]

\* InteractiveCli::exit_commit_mode
exit_commit_mode(x) ==
    [x EXCEPT !.cli.in_commit_mode     = FALSE,
              !.cli.commit_suggestions = <<>>,
              !.cli.commit_list_state  = None]

execute_commit_first_suggestion(x) ==
    IF unwrap_or(x.cli.commit_list_state, 0) < Len(x.cli.commit_suggestions)
    THEN LET x1 == [x EXCEPT !.calls = Append(@, [cmd |-> "git2 commit",
                                                  arg |-> NoArg,
                                                  msg |-> x.cli.commit_suggestions[1]]),
                             !.res = IF Len(x.calls) + 1 = x.fail_at
                                     THEN "err" ELSE "ok"]
         IN  IF x1.res # "ok" THEN x1
             ELSE update_git_status(exit_commit_mode(
                      [x1 EXCEPT !.repo.porcelain = git_commit(x1.repo.porcelain)]))
    ELSE x

\* InteractiveCli::execute_commit: the git2 calls (open, index, write_tree,
\* signature, head, commit) are one collaborator call that commits or fails
execute_commit(x) ==
    LET selected == unwrap_or(x.cli.commit_list_state, 0)
    IN  IF selected < Len(x.cli.commit_suggestions)
        THEN LET commit_message == x.cli.commit_suggestions[selected + 1]
                 x1 == [x EXCEPT !.calls = Append(@, [cmd |-> "git2 commit",
                                                      arg |-> NoArg,
                                                      msg |-> commit_message]),
                                 !.res = IF Len(x.calls) + 1 = x.fail_at
                                         THEN "err" ELSE "ok"]
             IN  IF x1.res # "ok" THEN x1
                 ELSE update_git_status(exit_commit_mode(
                          [x1 EXCEPT !.repo.porcelain = git_commit(x1.repo.porcelain)]))
        ELSE x

-----------------------------------------------------------------------------
(* File staging *)

\* InteractiveCli::enter_file_mode
enter_file_mode(x) ==
    LET x1 == load_file_items(x)
    IN  IF x1.res # "ok" THEN x1
        ELSE [x1 EXCEPT !.cli.in_file_mode = TRUE,
                        !.cli.file_list_state = Some(0)]

exit_file_mode_keeps_items(x) ==
    update_git_status([x EXCEPT !.cli.in_file_mode = FALSE,
                                !.cli.file_list_state = None])

exit_file_mode_no_refresh(x) ==
    [x EXCEPT !.cli.in_file_mode = FALSE,
              !.cli.file_items = <<>>,
              !.cli.file_list_state = None]

\* InteractiveCli::exit_file_mode
exit_file_mode(x) ==
    update_git_status([x EXCEPT !.cli.in_file_mode = FALSE,
                                !.cli.file_items = <<>>,
                                !.cli.file_list_state = None])

\* InteractiveCli::navigate_file_up
navigate_file_up(x) ==
    LET current == unwrap_or(x.cli.file_list_state, 0)
        last    == usize_sub(Len(x.cli.file_items), 1, x.checks)
    IN  IF current > 0
        THEN [x EXCEPT !.cli.file_list_state = Some(current - 1)]
        ELSE IF last = None THEN [x EXCEPT !.res = "panic"]
        ELSE [x EXCEPT !.cli.file_list_state = last]

\* InteractiveCli::navigate_file_down
navigate_file_down(x) ==
    LET current == unwrap_or(x.cli.file_list_state, 0)
        last    == usize_sub(Len(x.cli.file_items), 1, x.checks)
    IN  IF last = None THEN [x EXCEPT !.res = "panic"]
        ELSE IF current < last[1]
        THEN [x EXCEPT !.cli.file_list_state = Some(current + 1)]
        ELSE [x EXCEPT !.cli.file_list_state = Some(0)]

toggle_file_staging_always_adds(x) ==
    LET selected == unwrap_or(x.cli.file_list_state, 0)
    IN  IF selected < Len(x.cli.file_items)
        THEN LET file == x.cli.file_items[selected + 1]
             IN  update_git_status(load_file_items(
                     git_run(x, "git add", file.path,
                             git_add(x.repo.porcelain, file.path))))
        ELSE x

\* InteractiveCli::toggle_file_staging
toggle_file_staging(x) ==
    LET selected == unwrap_or(x.cli.file_list_state, 0)
    IN  IF selected < Len(x.cli.file_items)
        THEN LET file == x.cli.file_items[selected + 1]
                 x1 == CASE file.status = "Staged" ->
                              git_run(x, "git reset HEAD --", file.path,
                                      git_reset(x.repo.porcelain, file.path))
                         [] file.status \in {"Modified", "Untracked"} ->
                              git_run(x, "git add", file.path,
                                      git_add(x.repo.porcelain, file.path))
                         [] OTHER ->
                              git_run(x, "git rm", file.path,
                                      x.repo.porcelain)
             IN  update_git_status(load_file_items(x1))
        ELSE x

\* InteractiveCli::stage_all_files
stage_all_files(x) ==
    update_git_status(load_file_items(
        git_run(x, "git add .", NoArg,
                git_add(x.repo.porcelain, AllPaths))))

\* InteractiveCli::unstage_all_files
unstage_all_files(x) ==
    update_git_status(load_file_items(
        git_run(x, "git reset HEAD -- .", NoArg,
                git_reset(x.repo.porcelain, AllPaths))))

-----------------------------------------------------------------------------
(* Main-menu actions *)

\* InteractiveCli::add_files_to_staging
add_files_to_staging(x) ==
    git_run(x, "git add .", NoArg, git_add(x.repo.porcelain, AllPaths))

\* InteractiveCli::push_to_remote
push_to_remote(x) == git_run(x, "git push", NoArg, x.repo.porcelain)

\* InteractiveCli::pull_from_remote
pull_from_remote(x) == git_run(x, "git pull", NoArg, x.repo.porcelain)

\* InteractiveCli::switch_branch (`git checkout -b new-branch` fails when the
\* branch exists)
switch_branch(x) ==
    git_run(x, "git checkout -b new-branch", NoArg, x.repo.porcelain)

\* InteractiveCli::merge_branch
merge_branch(x) == git_run(x, "git merge main", NoArg, x.repo.porcelain)

\* InteractiveCli::view_status
view_status(x) == x

\* InteractiveCli::show_configuration
show_configuration(x) == x

\* InteractiveCli::show_pr_description, up to its collaborator calls
show_pr_description(x) == suspend(x, "pr_description", "Generating PR description...")

\* InteractiveCli::show_generated_tests, up to its collaborator calls
show_generated_tests(x) == suspend(x, "tests", "Generating unit tests...")

\* InteractiveCli::show_improved_commit_message, up to its collaborator calls
show_improved_commit_message(x) == suspend(x, "improve", "Improving commit message...")

\* InteractiveCli::show_changelog, up to its collaborator calls
show_changelog(x) == suspend(x, "changelog", "Generating changelog...")

\* InteractiveCli::show_code_review, up to its collaborator calls
show_code_review(x) == suspend(x, "review", "Performing code review...")

create_pr_without_token_check(x) ==
    suspend(x, "create_pr", "Creating PR with AI description...")

\* InteractiveCli::create_pr_with_ai_description, up to its collaborator calls
create_pr_with_ai_description(x) ==
    IF ~x.cli.config.has_github_token THEN x
    ELSE suspend(x, "create_pr", "Creating PR with AI description...")

exit_display_mode_keeps_content(x) ==
    [x EXCEPT !.cli.in_display_mode = FALSE]

\* InteractiveCli::exit_display_mode
exit_display_mode(x) ==
    [x EXCEPT !.cli.in_display_mode = FALSE,
              !.cli.display_content = <<>>,
              !.cli.display_title   = ""]

\* InteractiveCli::handle_git_operation
handle_git_operation(x, selected) ==
    CASE selected = 0 -> enter_file_mode(x)
      [] selected = 1 -> add_files_to_staging(x)
      [] selected = 2 -> commit_changes(x)
      [] selected = 3 -> push_to_remote(x)
      [] selected = 4 -> pull_from_remote(x)
      [] selected = 5 -> switch_branch(x)
      [] selected = 6 -> merge_branch(x)
      [] selected = 7 -> view_status(x)
      [] OTHER        -> x

\* InteractiveCli::handle_ai_operation
handle_ai_operation(x, selected) ==
    CASE selected = 0 -> show_pr_description(x)
      [] selected = 1 -> create_pr_with_ai_description(x)
      [] selected = 2 -> show_generated_tests(x)
      [] selected = 3 -> show_improved_commit_message(x)
      [] selected = 4 -> start_interactive_commit(x, FALSE)
      [] selected = 5 -> show_changelog(x)
      [] selected = 6 -> show_code_review(x)
      [] OTHER        -> x

\* InteractiveCli::handle_utility
handle_utility(x, selected) ==
    CASE selected = 0 -> update_git_status(x)
      [] selected = 1 -> show_configuration(x)
      [] selected = 2 -> [x EXCEPT !.cli.should_quit = TRUE]
      [] OTHER        -> x

\* InteractiveCli::handle_selection; a handler suspended on its collaborator
\* calls runs the trailing status refresh when it resumes
handle_selection(x) ==
    LET selected == unwrap_or(x.cli.list_state, 0)
        y == CASE x.cli.current_tab = 0 -> handle_git_operation(x, selected)
               [] x.cli.current_tab = 1 -> handle_ai_operation(x, selected)
               [] x.cli.current_tab = 2 -> handle_utility(x, selected)
               [] OTHER                 -> x
    IN  IF y.susp # "none" THEN y ELSE update_git_status(y)

-----------------------------------------------------------------------------
(* The key dispatch of run() *)

Keys == {"q", "Up", "Down", "Tab", "BackTab", "Enter", "Esc",
         "r", "f", "Space", "a", "u", "other"}

key_action_main_only(x, key) ==
    CASE key = "q"       -> [x EXCEPT !.cli.should_quit = TRUE]
      [] key = "Up"      -> navigate_up(x)
      [] key = "Down"    -> navigate_down(x)
      [] key = "Tab"     -> next_tab(x)
      [] key = "BackTab" -> prev_tab(x)
      [] key = "Enter"   -> handle_selection(x)
      [] key = "r"       -> update_git_status(x)
      [] key = "f"       -> enter_file_mode(x)
      [] OTHER           -> x

key_action_q_everywhere(x, key) ==
    IF key = "q" THEN [x EXCEPT !.cli.should_quit = TRUE]
    ELSE IF x.cli.in_loading_mode THEN x
    ELSE IF x.cli.in_commit_mode THEN
        CASE key = "Up"    -> navigate_commit_up(x)
          [] key = "Down"  -> navigate_commit_down(x)
          [] key = "Enter" -> execute_commit(x)
          [] key = "Esc"   -> exit_commit_mode(x)
          [] OTHER         -> x
    ELSE IF x.cli.in_file_mode THEN
        CASE key = "Up"    -> navigate_file_up(x)
          [] key = "Down"  -> navigate_file_down(x)
          [] key = "Space" -> toggle_file_staging(x)
          [] key = "a"     -> stage_all_files(x)
          [] key = "u"     -> unstage_all_files(x)
          [] key = "Esc"   -> exit_file_mode(x)
          [] OTHER         -> x
    ELSE IF x.cli.in_display_mode THEN
        CASE key = "Esc" -> exit_display_mode(x)
          [] OTHER       -> x
    ELSE
        CASE key = "Up"      -> navigate_up(x)
          [] key = "Down"    -> navigate_down(x)
          [] key = "Tab"     -> next_tab(x)
          [] key = "BackTab" -> prev_tab(x)
          [] key = "Enter"   -> handle_selection(x)
          [] key = "r"       -> update_git_status(x)
          [] key = "f"       -> enter_file_mode(x)
          [] OTHER           -> x

\* run(): the `match key.code` of the active mode (lines 130-214)
key_action(x, key) ==
    IF x.cli.in_loading_mode THEN
        IF key = "q" THEN [x EXCEPT !.cli.should_quit = TRUE] ELSE x
    ELSE IF x.cli.in_commit_mode THEN
        CASE key = "Up"    -> navigate_commit_up(x)
          [] key = "Down"  -> navigate_commit_down(x)
          [] key = "Enter" -> execute_commit(x)
          [] key = "Esc"   -> exit_commit_mode(x)
          [] OTHER         -> x
    ELSE IF x.cli.in_file_mode THEN
        CASE key = "Up"    -> navigate_file_up(x)
          [] key = "Down"  -> navigate_file_down(x)
          [] key = "Space" -> toggle_file_staging(x)
          [] key = "a"     -> stage_all_files(x)
          [] key = "u"     -> unstage_all_files(x)
          [] key = "Esc"   -> exit_file_mode(x)
          [] OTHER         -> x
    ELSE IF x.cli.in_display_mode THEN
        CASE key = "Esc" -> exit_display_mode(x)
          [] key = "q"   -> [x EXCEPT !.cli.should_quit = TRUE]
          [] OTHER       -> x
    ELSE
        CASE key = "q"       -> [x EXCEPT !.cli.should_quit = TRUE]
          [] key = "Up"      -> navigate_up(x)
          [] key = "Down"    -> navigate_down(x)
          [] key = "Tab"     -> next_tab(x)
          [] key = "BackTab" -> prev_tab(x)
          [] key = "Enter"   -> handle_selection(x)
          [] key = "r"       -> update_git_status(x)
          [] key = "f"       -> enter_file_mode(x)
          [] OTHER           -> x

\* run(): the spinner update at the top of an iteration (lines 115-118)
spinner_tick(x, due) ==
    IF x.cli.in_loading_mode /\ due
    THEN [x EXCEPT !.cli.loading_spinner = (x.cli.loading_spinner + 1) % SpinnerFrames]
    ELSE x

-----------------------------------------------------------------------------
(* Diff extraction (src/src/git.rs): get_diff_info, get_staged_changes,    *)
(* format_diff and get_files_changed                                       *)

\* str::starts_with
starts_with(s, p) == Len(s) >= Len(p) /\ SubSeq(s, 1, Len(p)) = p

RECURSIVE trim_start_matches(_, _)
\* str::trim_start_matches: the prefix is removed as often as it repeats
trim_start_matches(s, p) ==
    IF starts_with(s, p)
    THEN trim_start_matches(SubSeq(s, Len(p) + 1, Len(s)), p)
    ELSE s

WhiteSpace == {SP, CR, "\t"}

RECURSIVE split_from(_, _, _, _)
split_from(s, i, cur, acc) ==
    IF i > Len(s)
    THEN IF cur = <<>> THEN acc ELSE Append(acc, cur)
    ELSE IF s[i] \in WhiteSpace
         THEN split_from(s, i + 1, <<>>, IF cur = <<>> THEN acc ELSE Append(acc, cur))
         ELSE split_from(s, i + 1, Append(cur, s[i]), acc)

\* str::split_whitespace: the maximal runs of non-white-space characters
split_whitespace(s) == split_from(s, 1, <<>>, <<>>)

\* Iterator::nth (counted from 0)
nth(seq, n) == IF n < Len(seq) THEN Some(seq[n + 1]) ELSE None

DiffGit    == <<"d", "i", "f", "f", SP, "-", "-", "g", "i", "t">>
Plus3      == <<"+", "+", "+">>
Minus3     == <<"-", "-", "-">>
Plus3Sp    == <<"+", "+", "+", SP>>
Minus3Sp   == <<"-", "-", "-", SP>>
DevNull    == <<"/", "d", "e", "v", "/", "n", "u", "l", "l">>
APrefix    == <<"a", "/">>
BPrefix    == <<"b", "/">>

extract_path_keeps_dev_null(line) ==
    IF starts_with(line, DiffGit)
    THEN LET word == nth(split_whitespace(line), 2)
         IN  IF word = None THEN None
             ELSE Some(trim_start_matches(word[1], APrefix))
    ELSE IF starts_with(line, Plus3) \/ starts_with(line, Minus3)
    THEN LET path == trim_start_matches(trim_start_matches(line, Plus3Sp), Minus3Sp)
         IN  Some(trim_start_matches(trim_start_matches(path, APrefix), BPrefix))
    ELSE None

\* get_files_changed: the filter and the filter_map closure applied to one
\* line (lines 371-385); None when the line yields no path
extract_path(line) ==
    IF starts_with(line, DiffGit)
    THEN LET word == nth(split_whitespace(line), 2)
         IN  IF word = None THEN None
             ELSE Some(trim_start_matches(word[1], APrefix))
    ELSE IF starts_with(line, Plus3) \/ starts_with(line, Minus3)
    THEN LET path == trim_start_matches(trim_start_matches(line, Plus3Sp), Minus3Sp)
         IN  IF ~starts_with(path, DevNull)
             THEN Some(trim_start_matches(trim_start_matches(path, APrefix), BPrefix))
             ELSE None
    ELSE None

\* collect::<HashSet<_>>() of a sequence
hash_set(seq) == { seq[i] : i \in 1..Len(seq) }

\* the HashSet get_files_changed collects (line 386)
extracted_paths(diff) ==
    { extract_path(l)[1] : l \in { l \in hash_set(lines(diff)) : extract_path(l) # None } }

\* the orders in which a HashSet can be iterated: every enumeration without
\* repetition (the hasher is seeded at random in each process)
into_iter(set) ==
    { f \in [1..Cardinality(set) -> set] :
        \A i, j \in 1..Cardinality(set) : i # j => f[i] # f[j] }

\* get_files_changed: the Vecs it can return for a patch text
get_files_changed(diff) == into_iter(extracted_paths(diff))

\* the lines libgit2 prints for one file of a patch: the file header, the
\* hunk header, and the content of the changed line without its origin
\* character (format_diff pushes line.content() only)
delta_lines(delta) ==
    << DiffGit \o <<SP>> \o APrefix \o delta.path \o <<SP>> \o BPrefix \o delta.path >>
    \o (CASE delta.kind = "added"   -> << <<"n", "e", "w", SP, "f", "i", "l", "e", SP, "m", "o", "d", "e", SP, "1", "0", "0", "6", "4", "4">> >>
          [] delta.kind = "deleted" -> << <<"d", "e", "l", "e", "t", "e", "d", SP, "f", "i", "l", "e", SP, "m", "o", "d", "e", SP, "1", "0", "0", "6", "4", "4">> >>
          [] OTHER                  -> <<>>)
    \o << <<"i", "n", "d", "e", "x", SP, "8", "3", "d", "b", "4", "8", "f", ".", ".", "b", "f", "2", "6", "9", "f", "4">>,
          Minus3Sp \o (IF delta.kind = "added" THEN DevNull ELSE APrefix \o delta.path),
          Plus3Sp \o (IF delta.kind = "deleted" THEN DevNull ELSE BPrefix \o delta.path),
          <<"@", "@", SP, "-", "1", SP, "+", "1", SP, "@", "@">>,
          delta.text >>

RECURSIVE diff_lines(_)
diff_lines(deltas) ==
    IF deltas = <<>> THEN <<>>
    ELSE delta_lines(Head(deltas)) \o diff_lines(Tail(deltas))

\* format_diff: the patch text of a diff
format_diff(deltas) == join_lines(diff_lines(deltas))

RECURSIVE flat_map_files(_)
\* commits.iter().flat_map(|c| &c.files_changed)
flat_map_files(commits) ==
    IF commits = <<>> THEN <<>>
    ELSE Head(commits).files_changed \o flat_map_files(Tail(commits))

total_files_changed_summed(commits) == Len(flat_map_files(commits))

\* the count of the HashSet of all commits' files (lines 289-292, 333-336)
total_files_changed(commits) == Cardinality(hash_set(flat_map_files(commits)))

\* the DiffInfo built from the commit records (the message, author and date
\* of a record are not followed)
DiffInfo(commits) ==
    [commits |-> commits, total_files_changed |-> total_files_changed(commits),
     total_additions |-> 0, total_deletions |-> 0]

RECURSIVE commit_infos(_, _)
\* the loop over the revwalk of get_diff_info: the sequences of records it
\* can build for the commits from the i-th on
commit_infos(history, i) ==
    IF i > Len(history) THEN {<<>>}
    ELSE { <<[hash |-> "commit " \o ToString(i), files_changed |-> files,
              diff |-> format_diff(history[i])]>> \o rest :
             files \in get_files_changed(format_diff(history[i])),
             rest \in commit_infos(history, i + 1) }

staged_commits_unconditional(deltas) ==
    { <<[hash |-> "STAGED", files_changed |-> files, diff |-> format_diff(deltas)]>> :
        files \in get_files_changed(format_diff(deltas)) }

\* the records get_staged_changes can build for the diff of HEAD and index
staged_commits(deltas) ==
    { IF files # <<>>
      THEN <<[hash |-> "STAGED", files_changed |-> files, diff |-> format_diff(deltas)]>>
      ELSE <<>> :
        files \in get_files_changed(format_diff(deltas)) }

RECURSIVE index_diff_lines(_)
index_diff_lines(ls) ==
    IF ls = <<>> THEN <<>>
    ELSE LET l == Head(ls)
         IN  (IF Len(l) >= 3 /\ l[1] \notin {SP, "?"}
              THEN <<[path |-> file_slice(l),
                      kind |-> CASE l[1] = "A" -> "added"
                                 [] l[1] = "D" -> "deleted"
                                 [] OTHER      -> "modified",
                      text |-> <<"x">>]>>
              ELSE <<>>)
             \o index_diff_lines(Tail(ls))

\* repo.diff_tree_to_tree(HEAD, index) (line 317): one delta per path whose
\* index code in the status text is not blank
index_diff(text) == index_diff_lines(lines(text))

-----------------------------------------------------------------------------
(* Collaborator calls of the suspended handlers *)

\* the longest answer of the chat completion, in lines
MaxReplyLines == 3

\* a line of white space only
Blank == "   "

AiLines == <<"feat: a", Blank, "fix: b", "docs: c">>

\* what the chat completion can answer: nothing, white space only, or some
\* lines of text with blank lines between them
AiReplies == { SubSeq(AiLines, 1, n) : n \in 0..MaxReplyLines } \cup { <<Blank>> }

AiUnavailable == "AI Feature Unavailable"

\* the text call_openai_api returns without an API key (lines 34-37)
placeholder ==
    <<AiUnavailable, Blank, "(the prompt)", Blank, "*Note: Set OPENAI_API_KEY*">>

call_openai_api_always_calls(x, reply) ==
    IF x.res # "ok" THEN x
    ELSE [call(x, "openai chat completion", NoArg) EXCEPT !.content = reply]

\* ai::call_openai_api: without an API key the placeholder and no call out of
\* the process; with one, a chat completion that answers `reply` or fails
call_openai_api(x, reply) ==
    IF x.res # "ok" THEN x
    ELSE IF ~x.cli.config.has_openai_key THEN [x EXCEPT !.content = placeholder]
    ELSE [call(x, "openai chat completion", NoArg) EXCEPT !.content = reply]

non_blank(line) == line # Blank

\* ai::generate_commit_suggestions: the non-blank lines of the answer
generate_commit_suggestions(x, reply) ==
    LET y == call_openai_api(x, reply)
    IN  [y EXCEPT !.content = SelectSeq(y.content, non_blank)]

\* the fallback of start_interactive_commit (lines 1006-1010)
FallbackSuggestions ==
    <<"feat: add new functionality", "fix: resolve issue", "chore: update code">>

\* a `?` call made by a handler that already ran start_loading
try_call(x, cmd) == IF x.res # "ok" THEN x ELSE call(x, cmd, NoArg)

\* start_interactive_commit from get_staged_changes() to stop_loading()
\* (lines 993-1013); susp tells what the handler does next
commit_calls_return(x, reply) ==
    LET x1 == try_call(x, "git2 staged diff")
        x2 == generate_commit_suggestions(x1, reply)
    IN  IF x1.res # "ok" THEN x1
        ELSE IF <<>> \in staged_commits(index_diff(x1.repo.porcelain))
        THEN [stop_loading(x1) EXCEPT !.susp = "return"]
        ELSE IF x2.res # "ok" THEN x2
        ELSE [stop_loading(
                 [x2 EXCEPT !.cli.commit_suggestions =
                     IF x2.content = <<>> THEN FallbackSuggestions
                     ELSE x2.content])
              EXCEPT !.susp = "enter_commit_mode", !.content = <<>>]

\* ai::generate_tests: the answer is written to test files; the caller gets a
\* report of the files
generate_tests(x, reply) ==
    LET y == try_call(call_openai_api(x, reply), "fs write tests")
    IN  [y EXCEPT !.content = <<"(test files written)">>]

\* the show_* handlers from get_diff_info() to stop_loading()
display_calls_return(x, pending, reply) ==
    LET x1 == IF pending = "improve" THEN x ELSE try_call(x, "git2 diff info")
        x2 == IF pending = "tests" THEN generate_tests(x1, reply)
              ELSE call_openai_api(x1, reply)
    IN  IF x2.res # "ok" THEN x2
        ELSE [stop_loading(x2) EXCEPT
                !.susp  = "enter_display_mode",
                !.title = CASE pending = "pr_description" -> "AI-Generated PR Description"
                            [] pending = "tests"          -> "AI-Generated Unit Tests"
                            [] pending = "improve"        -> "AI-Improved Commit Message"
                            [] pending = "changelog"      -> "AI-Generated Changelog"
                            [] OTHER                      -> "AI Code Review"]

\* create_pr_with_ai_description from `git branch` to stop_loading()
create_pr_calls_return(x, reply) ==
    LET x1 == try_call(x, "git branch --show-current")
        x2 == try_call(x1, "git2 diff info")
        x3 == call_openai_api(x2, reply)
        x4 == try_call(x3, "git remote get-url origin")
        x5 == try_call(x4, "github get repository")
        x6 == try_call(x5, "github create pull request")
    IN  IF x6.res # "ok" THEN x6
        ELSE [stop_loading(x6) EXCEPT !.susp = "return", !.content = <<>>]

calls_return(x, pending, reply) ==
    CASE pending = "commit"    -> commit_calls_return(x, reply)
      [] pending = "create_pr" -> create_pr_calls_return(x, reply)
      [] OTHER                 -> display_calls_return(x, pending, reply)

\* the rest of the suspended handler after stop_loading(), then the trailing
\* update_git_status of handle_selection
resume_handler(x, t) ==
    update_git_status(
        CASE t.next = "enter_commit_mode" ->
                 [x EXCEPT !.cli.in_commit_mode = TRUE,
                           !.cli.commit_list_state = Some(0)]
          [] t.next = "enter_display_mode" ->
                 [x EXCEPT !.cli.display_title   = t.title,
                           !.cli.display_content = t.content,
                           !.cli.in_display_mode = TRUE]
          [] OTHER -> x)

-----------------------------------------------------------------------------
(* The states the backend can be in *)

PathA == <<"a">>
PathB == <<"b">>

\* a tracked file, clean or edited
CodesA == {<<>>, <<SP, "M">>}
\* a new file, absent or untracked
CodesB == {<<>>, <<"?", "?">>}

porcelain_line(code, path) ==
    IF code = <<>> THEN <<>> ELSE <<code \o <<SP>> \o path>>

\* what `git status --porcelain` prints at start-up: one line per changed
\* path; staging, unstaging and committing lead to the other codes
WorkTrees ==
    { join_lines(porcelain_line(ca, PathA) \o porcelain_line(cb, PathB)) :
        ca \in CodesA, cb \in CodesB }

\* OPENAI_API_KEY and GITHUB_TOKEN present or absent (Config::load)
Configs == [has_openai_key : BOOLEAN, has_github_token : BOOLEAN]

\* no key press is being handled (`key` of run() is out of scope)
NoKeyEvent == "none"

\* no commits since the base and an index equal to HEAD
NoDiffs == [history |-> <<>>, staged |-> <<>>]

NoTask == [pending |-> "none", next |-> "none", title |-> "", content |-> <<>>]

\* the two-character codes of the table of update_git_status and codes
\* outside of it
TableCodes == {<<"A", SP>>, <<"M", SP>>, <<"D", SP>>, <<SP, "M">>, <<SP, "D">>,
               <<"?", "?">>, <<"A", "M">>, <<"M", "M">>}
OtherCodes == {<<SP, "A">>, <<"U", "U">>, <<"R", SP>>}
\* lines of fewer than three characters
ShortLines == {<<>>, <<"M">>, <<"?", "?">>}

ScanShapes == { <<"code", c>> : c \in TableCodes \cup OtherCodes }
              \cup { <<"short", l>> : l \in ShortLines }

\* the i-th line of a status text names the path f<i>
scan_line(shape, i) ==
    IF shape[1] = "short" THEN shape[2]
    ELSE shape[2] \o <<SP, "f", ToString(i)>>

\* the scenario text "M  a.txt\n?? b.txt\n AM c.txt"
ScenarioText ==
    <<"M", SP, SP, "a", ".", "t", "x", "t", NL,
      "?", "?", SP, "b", ".", "t", "x", "t", NL,
      SP, "A", "M", SP, "c", ".", "t", "x", "t">>

\* arbitrary status texts of up to MaxLines lines, and the scenario text
ScanTexts ==
    { join_lines([i \in 1..Len(shapes) |-> scan_line(shapes[i], i)]) :
        shapes \in UNION { [1..n -> ScanShapes] : n \in 0..MaxLines } }
    \cup { ScenarioText }

-----------------------------------------------------------------------------
(* Actions *)

Init ==
    /\ cli \in { new(c) : c \in Configs }
    /\ repo \in [porcelain : WorkTrees]
    /\ terminal = [raw_mode |-> FALSE, alt_screen |-> FALSE]
    /\ pc = "start"
    /\ task = NoTask
    /\ calls = <<>>
    /\ key_event = NoKeyEvent
    /\ tree_diffs = NoDiffs
    /\ diff_info = None

\* where run() is after a handler returned x
after_handler(x) ==
    CASE x.res = "err"        -> "returned_err"
      [] x.res = "panic"      -> "panicked"
      [] x.susp # "none"      -> "awaiting"
      [] OTHER                -> "dispatched"

\* main() drops the struct when run() returns or unwinds: nothing of it is
\* observable any more, and the model parks it at its constructed value
dropped(c) == new(c.config)

\* the struct after a handler returned x
cli_after(x) == IF x.res = "ok" THEN x.cli ELSE dropped(x.cli)

\* run() up to the event loop (lines 99-107): raw mode, alternate screen and
\* mouse capture, the terminal, the first status refresh
Setup ==
    /\ UNCHANGED diff_vars
    /\ pc = "start"
    /\ \E term_fail \in 0..3, fail_at \in 0..2 :
        LET x == update_git_status(Ctx(fail_at, TRUE, TRUE))
        IN  /\ terminal' = [raw_mode   |-> term_fail # 1,
                            alt_screen |-> term_fail \notin {1, 2}]
            /\ IF term_fail # 0
               THEN /\ pc' = "returned_err"
                    /\ UNCHANGED <<cli, calls>>
               ELSE /\ calls' = x.calls
                    /\ cli' = IF x.res = "ok"
                              THEN [x.cli EXCEPT !.list_state = Some(0)]
                              ELSE dropped(x.cli)
                    /\ pc' = IF x.res = "ok" THEN "loop" ELSE after_handler(x)
    /\ UNCHANGED <<repo, task, key_event>>

\* the cursor stays within MaxStray of the list, or of the wrapped maximum
cursor_followed(sel, len) ==
    IF sel = None THEN TRUE
    ELSE IF sel[1] <= len + MaxStray THEN TRUE
    ELSE sel[1] >= UsizeModulus - 1 - MaxStray

\* the oracle of a key: how many collaborator calls its handler can make
max_calls(key) ==
    CASE key \in {"Enter", "Space", "a", "u"} -> 4
      [] key \in {"r", "Esc"}                 -> 2
      [] key = "f"                            -> 1
      [] OTHER                                -> 0

\* one iteration of the loop that reads a key press, up to the return of the
\* handler: draw, spinner, poll, dispatch (lines 112-215)
KeyPress(key) ==
    /\ UNCHANGED diff_vars
    /\ pc = "loop"
    /\ \E fail_at \in 0..max_calls(key),
          exit_ok \in (IF key \in {"Enter", "Space", "a", "u"} THEN BOOLEAN ELSE {TRUE}),
          checks \in (IF key \in {"Up", "Down"} THEN BOOLEAN ELSE {TRUE}),
          due \in (IF cli.in_loading_mode THEN BOOLEAN ELSE {FALSE}) :
        LET x == key_action(spinner_tick(Ctx(fail_at, exit_ok, checks), due), key)
        IN  /\ cursor_followed(x.cli.file_list_state, Len(x.cli.file_items))
            /\ cli' = cli_after(x)
            /\ repo' = x.repo
            /\ calls' = x.calls
            /\ pc' = after_handler(x)
            /\ task' = [NoTask EXCEPT !.pending = x.susp]
            /\ key_event' = IF x.res = "ok" THEN key ELSE NoKeyEvent
    /\ UNCHANGED terminal

\* one iteration in which poll() times out or the event is no key press
NoKey ==
    /\ UNCHANGED diff_vars
    /\ pc = "loop"
    /\ \E due \in (IF cli.in_loading_mode THEN BOOLEAN ELSE {FALSE}) :
        cli' = spinner_tick(Ctx(0, TRUE, TRUE), due).cli
    /\ calls' = <<>>
    /\ UNCHANGED <<repo, terminal, pc, task, key_event>>

\* terminal.draw(), event::poll() or event::read() returns Err
TerminalError ==
    /\ UNCHANGED diff_vars
    /\ pc = "loop"
    /\ pc' = "returned_err"
    /\ cli' = dropped(cli)
    /\ calls' = <<>>
    /\ UNCHANGED <<repo, terminal, task, key_event>>

\* the collaborator calls of the suspended handler return
CallsReturn ==
    /\ UNCHANGED diff_vars
    /\ pc = "awaiting"
    /\ \E fail_at \in 0..6, reply \in AiReplies :
        LET x == calls_return(Ctx(fail_at, TRUE, TRUE), task.pending, reply)
        IN  /\ cli' = cli_after(x)
            /\ repo' = x.repo
            /\ calls' = x.calls
            /\ pc' = IF x.res = "ok" THEN "resume" ELSE after_handler(x)
            /\ task' = IF x.res = "ok"
                       THEN [task EXCEPT !.next = x.susp, !.title = x.title,
                                         !.content = x.content]
                       ELSE NoTask
            /\ key_event' = IF x.res = "ok" THEN key_event ELSE NoKeyEvent
    /\ UNCHANGED terminal

\* the suspended handler runs to its end
Resume ==
    /\ UNCHANGED diff_vars
    /\ pc = "resume"
    /\ \E fail_at \in 0..2 :
        LET x == resume_handler(Ctx(fail_at, TRUE, TRUE), task)
        IN  /\ cli' = cli_after(x)
            /\ repo' = x.repo
            /\ calls' = x.calls
            /\ pc' = after_handler(x)
            /\ key_event' = IF x.res = "ok" THEN key_event ELSE NoKeyEvent
    /\ task' = NoTask
    /\ UNCHANGED terminal

\* the end of an iteration, were the quit flag not looked at
QuitCheck_ignores_flag ==
    /\ UNCHANGED diff_vars
    /\ pc = "dispatched"
    /\ pc' = "loop"
    /\ calls' = <<>>
    /\ key_event' = NoKeyEvent
    /\ UNCHANGED <<cli, repo, terminal, task>>

\* the end of an iteration (lines 219-221): `if self.should_quit { break; }`
QuitCheck ==
    /\ UNCHANGED diff_vars
    /\ pc = "dispatched"
    /\ pc' = IF cli.should_quit THEN "teardown" ELSE "loop"
    /\ calls' = <<>>
    /\ key_event' = NoKeyEvent
    /\ UNCHANGED <<cli, repo, terminal, task>>

\* run() after the loop (lines 224-231): disable_raw_mode()?, then
\* execute!(LeaveAlternateScreen, DisableMouseCapture)?
Teardown ==
    /\ UNCHANGED diff_vars
    /\ pc = "teardown"
    /\ \E term_fail \in 0..2 :
        /\ terminal' = [raw_mode   |-> term_fail = 1,
                        alt_screen |-> term_fail # 0]
        /\ pc' = IF term_fail = 0 THEN "returned_ok" ELSE "returned_err"
    /\ cli' = dropped(cli)
    /\ calls' = <<>>
    /\ UNCHANGED <<repo, task, key_event>>

Next ==
    \/ Setup
    \/ \E key \in Keys : KeyPress(key)
    \/ NoKey
    \/ TerminalError
    \/ CallsReturn
    \/ Resume
    \/ QuitCheck
    \/ Teardown

Spec == Init /\ [][Next]_vars

-----------------------------------------------------------------------------
(* The scanner specification: the controller started on an arbitrary       *)
(* status text, refreshing the status and opening and closing the file     *)
(* list                                                                    *)

NoAi == [has_openai_key |-> FALSE, has_github_token |-> FALSE]

ScanKeys == {"r", "f", "Esc"}

InitScan ==
    /\ cli = new(NoAi)
    /\ repo \in [porcelain : ScanTexts]
    /\ terminal = [raw_mode |-> FALSE, alt_screen |-> FALSE]
    /\ pc = "start"
    /\ task = NoTask
    /\ calls = <<>>
    /\ key_event = NoKeyEvent
    /\ tree_diffs = NoDiffs
    /\ diff_info = None

NextScan ==
    \/ Setup
    \/ \E key \in ScanKeys : KeyPress(key)
    \/ QuitCheck

SpecScan == InitScan /\ [][NextScan]_vars

-----------------------------------------------------------------------------
(* The diff-extraction specification: get_diff_info and get_staged_changes *)
(* run on arbitrary small histories and staged diffs                       *)

\* files changed by the staged diff, and commits since the base
MaxDeltas == 1
MaxCommits == 2

PathC == <<"c">>
\* a file "c" in a directory "b"
PathBC == <<"b", "/", "c">>
DiffPaths == <<PathA, PathB, PathC, PathBC>>

Kinds == {"modified", "added", "deleted"}

\* the text of the changed line: plain, or a line that starts with dashes
HunkTexts == {<<"x">>, <<"-", "-", "-", SP, "z">>}

path_index(path) == CHOOSE i \in 1..Len(DiffPaths) : DiffPaths[i] = path

\* diffs of up to MaxDeltas files, listed in path order as libgit2 does
diffs_of(deltas) ==
    { d \in UNION { [1..n -> deltas] : n \in 0..MaxDeltas } :
        \A i \in 1..Len(d) - 1 : path_index(d[i].path) < path_index(d[i + 1].path) }

StagedDiffs == diffs_of([path : hash_set(DiffPaths), kind : Kinds, text : HunkTexts])

\* a file changed by a commit
modified(path) == [path |-> path, kind |-> "modified", text |-> <<"x">>]

\* commits that modify one or two of the files "a", "b", "c"
CommitDiffs ==
    { <<modified(p)>> : p \in {PathA, PathB, PathC} }
    \cup { <<modified(pq[1]), modified(pq[2])>> :
             pq \in { pq \in {PathA, PathB, PathC} \X {PathA, PathB, PathC} :
                        path_index(pq[1]) < path_index(pq[2]) } }

Histories == UNION { [1..n -> CommitDiffs] : n \in 0..MaxCommits }

\* a repository with commits since the base and a clean index, or with
\* staged changes and no commit since the base
InitDiff ==
    /\ cli = new(NoAi)
    /\ repo = [porcelain |-> <<>>]
    /\ terminal = [raw_mode |-> FALSE, alt_screen |-> FALSE]
    /\ pc = "start"
    /\ task = NoTask
    /\ calls = <<>>
    /\ key_event = NoKeyEvent
    /\ tree_diffs \in { [history |-> h, staged |-> <<>>] : h \in Histories }
                      \cup { [history |-> <<>>, staged |-> d] : d \in StagedDiffs }
    /\ diff_info = None

\* git::get_diff_info(base): Err when a git2 call fails
GetDiffInfo ==
    /\ pc = "start"
    /\ \E ok \in BOOLEAN, commits \in commit_infos(tree_diffs.history, 1) :
        /\ diff_info' = IF ok THEN Some(DiffInfo(commits)) ELSE None
        /\ pc' = IF ok THEN "returned_ok" ELSE "returned_err"
    /\ UNCHANGED <<cli, repo, terminal, task, calls, key_event, tree_diffs>>

\* git::get_staged_changes(): Err when a git2 call fails
GetStagedChanges ==
    /\ pc = "start"
    /\ \E ok \in BOOLEAN, commits \in staged_commits(tree_diffs.staged) :
        /\ diff_info' = IF ok THEN Some(DiffInfo(commits)) ELSE None
        /\ pc' = IF ok THEN "returned_ok" ELSE "returned_err"
    /\ UNCHANGED <<cli, repo, terminal, task, calls, key_event, tree_diffs>>

NextDiff == GetDiffInfo \/ GetStagedChanges

SpecDiff == InitDiff /\ [][NextDiff]_vars

-----------------------------------------------------------------------------
(* Properties *)

\* the three mode flags of the struct
mode_flags(c) == <<c.in_commit_mode, c.in_file_mode, c.in_display_mode>>

MainActive(c) ==
    ~c.in_loading_mode /\ mode_flags(c) = <<FALSE, FALSE, FALSE>>

Returned == {"returned_ok", "returned_err"}

\* the step just taken ended with a completed update_git_status
status_refreshed ==
    /\ pc \in {"loop", "dispatched"}
    /\ Len(calls) >= 2
    /\ calls[Len(calls) - 1].cmd = "git branch --show-current"
    /\ calls[Len(calls)].cmd = "git status --porcelain"

\* the documented table: the codes that put a path in each list
StagedCodes    == {<<"A", SP>>, <<"M", SP>>, <<"D", SP>>, <<"A", "M">>, <<"M", "M">>}
UnstagedCodes  == {<<SP, "M">>, <<SP, "D">>, <<"A", "M">>, <<"M", "M">>}
UntrackedCodes == {<<"?", "?">>}

RECURSIVE paths_coded(_, _)
\* the paths of the lines whose code is in `codes`, in line order
paths_coded(ls, codes) ==
    IF ls = <<>> THEN <<>>
    ELSE LET l == Head(ls)
         IN  (IF Len(l) >= 3 /\ <<l[1], l[2]>> \in codes
              THEN <<[i \in 1..(Len(l) - 3) |-> l[i + 3]]>>
              ELSE <<>>)
             \o paths_coded(Tail(ls), codes)

\* C1: after a status refresh that ran to its end, the staged list holds the
\* paths of the lines coded 'A ', 'M ', 'D ', 'AM', 'MM', the unstaged list
\* those coded ' M', ' D', 'AM', 'MM', the untracked list those coded '??',
\* each in line order, and lines with any other code are in no list.
C1_StatusTable ==
    status_refreshed =>
        /\ cli.git_status.staged_files
               = paths_coded(lines(repo.porcelain), StagedCodes)
        /\ cli.git_status.unstaged_files
               = paths_coded(lines(repo.porcelain), UnstagedCodes)
        /\ cli.git_status.untracked_files
               = paths_coded(lines(repo.porcelain), UntrackedCodes)

\* a refresh of a text with a line coded 'MM' and a line coded 'UU'
C1_Witness ==
    /\ status_refreshed
    /\ lines(repo.porcelain) = << <<"M", "M", SP, "f", "1">>, <<"U", "U", SP, "f", "2">> >>
    /\ cli.git_status.staged_files = << <<"f", "1">> >>
    /\ cli.git_status.unstaged_files = << <<"f", "1">> >>

a_txt == <<"a", ".", "t", "x", "t">>
b_txt == <<"b", ".", "t", "x", "t">>
c_txt == <<"c", ".", "t", "x", "t">>

scenario_scanned == status_refreshed /\ repo.porcelain = ScenarioText

\* C2 (as the code behaves): scanning "M  a.txt", "?? b.txt", " AM c.txt"
\* yields staged = [a.txt], unstaged = [], untracked = [b.txt]: the first two
\* characters of the third line are ' A', a code outside the table.
C2_Scenario ==
    scenario_scanned =>
        /\ cli.git_status.staged_files = <<a_txt>>
        /\ cli.git_status.unstaged_files = <<>>
        /\ cli.git_status.untracked_files = <<b_txt>>

C2_Witness ==
    scenario_scanned /\ cli.git_status.status = "2 files changed"

\* C2 as stated: staged = [a.txt, c.txt], unstaged = [c.txt],
\* untracked = [b.txt]
C2_AsStated ==
    scenario_scanned =>
        /\ cli.git_status.staged_files = <<a_txt, c_txt>>
        /\ cli.git_status.unstaged_files = <<c_txt>>
        /\ cli.git_status.untracked_files = <<b_txt>>

in_range(sel, n) == sel # None /\ sel[1] >= 0 /\ sel[1] < n

moved_up(sel, n)   == Some((sel[1] + n - 1) % n)
moved_down(sel, n) == Some((sel[1] + 1) % n)

\* C3: in Main, CommitSelection and FileStaging, an Up or Down key on a list
\* of n > 0 items with the cursor in range leaves the cursor in 0..n-1: Up
\* moves it from c to c-1 and from 0 to n-1, Down from c to c+1 and from n-1
\* to 0.  In Main n is the number of items navigation counts.
C3_CursorWraps ==
    [][ /\ LET n == Len(get_current_menu_items(cli.current_tab))
           IN  (MainActive(cli) /\ in_range(cli.list_state, n)) =>
                 /\ KeyPress("Up")   => cli'.list_state = moved_up(cli.list_state, n)
                 /\ KeyPress("Down") => cli'.list_state = moved_down(cli.list_state, n)
        /\ LET n == Len(cli.commit_suggestions)
           IN  (cli.in_commit_mode /\ in_range(cli.commit_list_state, n)) =>
                 /\ KeyPress("Up") =>
                        cli'.commit_list_state = moved_up(cli.commit_list_state, n)
                 /\ KeyPress("Down") =>
                        cli'.commit_list_state = moved_down(cli.commit_list_state, n)
        /\ LET n == Len(cli.file_items)
           IN  (cli.in_file_mode /\ in_range(cli.file_list_state, n)) =>
                 /\ KeyPress("Up") =>
                        cli'.file_list_state = moved_up(cli.file_list_state, n)
                 /\ KeyPress("Down") =>
                        cli'.file_list_state = moved_down(cli.file_list_state, n)
      ]_vars

\* the AI tab after Up wrapped the cursor from 0 to the last counted item
C3_Witness ==
    /\ pc = "dispatched"
    /\ MainActive(cli)
    /\ cli.current_tab = 1
    /\ cli.list_state = Some(Len(get_current_menu_items(1)) - 1)
    /\ calls = <<>>

\* the context of a handler run on the struct c
ctx_of(c) == [Ctx(0, TRUE, TRUE) EXCEPT !.cli = c]

\* C4: in Main, CommitSelection and FileStaging, with n > 0 and the cursor c
\* in range, Up after a Down step, and Down after an Up step, bring the
\* cursor back to c.
C4_UpDownInverse ==
    [][ /\ (MainActive(cli)
               /\ in_range(cli.list_state, Len(get_current_menu_items(cli.current_tab)))) =>
              /\ KeyPress("Down") =>
                     navigate_up(ctx_of(cli')).cli.list_state = cli.list_state
              /\ KeyPress("Up") =>
                     navigate_down(ctx_of(cli')).cli.list_state = cli.list_state
        /\ (cli.in_commit_mode
               /\ in_range(cli.commit_list_state, Len(cli.commit_suggestions))) =>
              /\ KeyPress("Down") =>
                     navigate_commit_up(ctx_of(cli')).cli.commit_list_state
                         = cli.commit_list_state
              /\ KeyPress("Up") =>
                     navigate_commit_down(ctx_of(cli')).cli.commit_list_state
                         = cli.commit_list_state
        /\ (cli.in_file_mode /\ in_range(cli.file_list_state, Len(cli.file_items))) =>
              /\ KeyPress("Down") =>
                     navigate_file_up(ctx_of(cli')).cli.file_list_state
                         = cli.file_list_state
              /\ KeyPress("Up") =>
                     navigate_file_down(ctx_of(cli')).cli.file_list_state
                         = cli.file_list_state
      ]_vars

\* the file list of two entries after a Down or Up step put the cursor on the
\* second
C4_Witness ==
    /\ pc = "dispatched"
    /\ cli.in_file_mode
    /\ Len(cli.file_items) = 2
    /\ cli.file_list_state = Some(1)
    /\ calls = <<>>

\* C5 as stated: with the file list empty, a key in FileStaging neither
\* aborts the loop nor sets the cursor to an index other than the 0 that
\* enter_file_mode selected.
C5_EmptyListSafe ==
    [][ (pc = "loop" /\ cli.in_file_mode /\ cli.file_items = <<>>) =>
            /\ pc' # "panicked"
            /\ cli'.file_list_state \in {None, Some(0)} ]_vars

\* C6: never more than one of the commit-selection, file-staging and
\* content-display flags is set (none set is Main), and the loading overlay
\* is only ever up over Main.
C6_OneMode ==
    /\ Cardinality({ i \in 1..3 : mode_flags(cli)[i] }) <= 1
    /\ cli.in_loading_mode => mode_flags(cli) = <<FALSE, FALSE, FALSE>>

\* CommitSelection reached through the loading overlay
C6_Witness ==
    /\ pc = "loop"
    /\ mode_flags(cli) = <<TRUE, FALSE, FALSE>>
    /\ ~cli.in_loading_mode

C8_LoopRunsWhileLoading ==
    pc = "awaiting" => ENABLED (NoKey \/ KeyPress("q"))

\* C9 as stated: no failure of a collaborator call made while handling a key
\* ends the loop; run() returns an error from the loop only when the terminal
\* fails.
C9_FailureKeepsLoop ==
    [][ (pc \in {"loop", "awaiting", "resume"} /\ pc' = "returned_err") =>
            calls' = <<>> ]_vars

\* C10 as stated: whenever run() has returned, raw mode is off and the
\* alternate screen is left.
C10_TerminalRestored ==
    pc \in Returned => ~terminal.raw_mode /\ ~terminal.alt_screen

\* the lists of the working-tree status are those of a scan of the backend
status_fresh(c, text) ==
    /\ c.git_status.staged_files    = scan_status(text).staged_files
    /\ c.git_status.unstaged_files  = scan_status(text).unstaged_files
    /\ c.git_status.untracked_files = scan_status(text).untracked_files

commit_calls(cs) == { i \in 1..Len(cs) : cs[i].cmd = "git2 commit" }

\* C11: in CommitSelection an Enter whose collaborator calls succeed creates
\* exactly one commit, with the suggestion under the cursor as its message;
\* then the mode is Main, the suggestion list is empty, and the status was
\* refreshed after the commit, from the backend as the commit left it.
C11_EnterCommits ==
    [][ (cli.in_commit_mode /\ KeyPress("Enter") /\ pc' = "dispatched") =>
            LET selected == unwrap_or(cli.commit_list_state, 0)
            IN  /\ commit_calls(calls') = {1}
                /\ calls'[1].msg = cli.commit_suggestions[selected + 1]
                /\ MainActive(cli')
                /\ cli'.commit_suggestions = <<>>
                /\ Len(calls') = 3
                /\ calls'[2].cmd = "git branch --show-current"
                /\ calls'[3].cmd = "git status --porcelain"
                /\ repo'.porcelain = git_commit(repo.porcelain)
                /\ status_fresh(cli', repo'.porcelain) ]_vars

\* Enter on the second of two suggestions has committed with it
C11_Witness ==
    /\ pc = "dispatched"
    /\ key_event = "Enter"
    /\ commit_calls(calls) = {1}
    /\ calls[1].msg = "fix: b"
    /\ MainActive(cli)
    /\ cli.commit_suggestions = <<>>
    /\ status_refreshed

\* C12: in CommitSelection Esc leads to Main with the suggestion list empty
\* and the commit cursor cleared; no commit is created, no version-control
\* command is issued, and the backend is as it was.
C12_EscDiscards ==
    [][ (cli.in_commit_mode /\ KeyPress("Esc")) =>
            /\ pc' = "dispatched"
            /\ MainActive(cli')
            /\ cli'.commit_suggestions = <<>>
            /\ cli'.commit_list_state = None
            /\ calls' = <<>>
            /\ repo' = repo ]_vars

\* Esc has been handled with staged changes left uncommitted in the backend
C12_Witness ==
    /\ pc = "dispatched"
    /\ key_event = "Esc"
    /\ calls = <<>>
    /\ MainActive(cli)
    /\ cli.commit_suggestions = <<>>
    /\ cli.commit_list_state = None
    /\ has_staged_changes(repo.porcelain)

\* commands that only read the backend
Queries == {"git status --porcelain", "git branch --show-current"}

\* the command the toggle of an entry of the given status is to issue
toggle_command(status) ==
    CASE status = "Staged"                     -> "git reset HEAD --"
      [] status \in {"Modified", "Untracked"}  -> "git add"
      [] status = "Deleted"                    -> "git rm"

\* the calls cs are one command `cmd path` followed by the rebuild of the file
\* list and the refresh of the status
toggled_and_rebuilt(cs, cmd, path) ==
    /\ Len(cs) = 4
    /\ { i \in 1..Len(cs) : cs[i].cmd \notin Queries } = {1}
    /\ cs[1].cmd = cmd
    /\ cs[1].arg = path
    /\ cs[2].cmd = "git status --porcelain"
    /\ cs[3].cmd = "git branch --show-current"
    /\ cs[4].cmd = "git status --porcelain"

\* the highlighted entry of the file list
highlighted(c) == c.file_items[c.file_list_state[1] + 1]

\* the struct c with the highlighted entry marked Deleted
with_deleted(c) ==
    [c EXCEPT !.file_items[c.file_list_state[1] + 1].status = "Deleted"]

\* C13: in FileStaging, Space on the highlighted entry issues exactly one
\* backend command, chosen by the entry's status (unstage if Staged, stage if
\* Modified or Untracked, remove if Deleted), on the entry's path; then the
\* file list and the working-tree status are both rebuilt from the backend.
C13_ToggleRebuilds ==
    [][ (cli.in_file_mode /\ in_range(cli.file_list_state, Len(cli.file_items))) =>
          /\ (KeyPress("Space") /\ pc' = "dispatched") =>
                /\ toggled_and_rebuilt(calls', toggle_command(highlighted(cli).status),
                                       highlighted(cli).path)
                /\ cli'.file_items = scan_file_items(repo'.porcelain).items
                /\ status_fresh(cli', repo'.porcelain)
          /\ LET x == toggle_file_staging(ctx_of(with_deleted(cli)))
             IN  /\ toggled_and_rebuilt(x.calls, "git rm", highlighted(cli).path)
                 /\ x.cli.file_items = scan_file_items(x.repo.porcelain).items
                 /\ status_fresh(x.cli, x.repo.porcelain) ]_vars

\* Space on the staged entry of the path "a" has unstaged it
C13_Witness ==
    /\ pc = "dispatched"
    /\ key_event = "Space"
    /\ cli.in_file_mode
    /\ toggled_and_rebuilt(calls, "git reset HEAD --", PathA)
    /\ \E i \in 1..Len(cli.file_items) :
           cli.file_items[i].path = PathA /\ cli.file_items[i].status = "Modified"

\* the backend lists the path with the given two-character code
coded(text, path, code) ==
    \E i \in 1..Len(lines(text)) : lines(text)[i] = code \o <<SP>> \o path

in_list(path, list) == \E i \in 1..Len(list) : list[i] = path

\* C14: for a path p listed as Modified (code ' M'), Space on p, when the
\* stage command takes effect in the backend, followed by the rebuild leaves p
\* out of the unstaged list and in the staged list, and p's file-list entry
\* is Staged.
C14_ModifiedBecomesStaged ==
    [][ (/\ cli.in_file_mode
         /\ in_range(cli.file_list_state, Len(cli.file_items))
         /\ highlighted(cli).status = "Modified"
         /\ coded(repo.porcelain, highlighted(cli).path, <<SP, "M">>)
         /\ KeyPress("Space")
         /\ pc' = "dispatched"
         /\ repo'.porcelain = git_add(repo.porcelain, highlighted(cli).path)) =>
            LET p == highlighted(cli).path
            IN  /\ ~in_list(p, cli'.git_status.unstaged_files)
                /\ in_list(p, cli'.git_status.staged_files)
                /\ \E i \in 1..Len(cli'.file_items) :
                       cli'.file_items[i].path = p
                /\ \A i \in 1..Len(cli'.file_items) :
                       cli'.file_items[i].path = p =>
                           cli'.file_items[i].status = "Staged" ]_vars

\* Space on the modified path "a" has staged it
C14_Witness ==
    /\ pc = "dispatched"
    /\ key_event = "Space"
    /\ toggled_and_rebuilt(calls, "git add", PathA)
    /\ coded(repo.porcelain, PathA, <<"M", SP>>)
    /\ in_list(PathA, cli.git_status.staged_files)
    /\ ~in_list(PathA, cli.git_status.unstaged_files)
    /\ \E i \in 1..Len(cli.file_items) :
           cli.file_items[i].path = PathA /\ cli.file_items[i].status = "Staged"

\* a diff extraction has returned a DiffInfo
extracted == pc = "returned_ok" /\ diff_info # None

\* the paths named by the files_changed lists of the commit records
union_of_files(commits) ==
    UNION { hash_set(commits[i].files_changed) : i \in 1..Len(commits) }

\* C15: in every DiffInfo that get_diff_info or get_staged_changes returns,
\* total_files_changed is the number of distinct paths in the union of the
\* files_changed lists of all its commit records.
C15_TotalIsUnion ==
    extracted =>
        diff_info[1].total_files_changed
            = Cardinality(union_of_files(diff_info[1].commits))

\* commits touching {a, b} and {b, c} give a total of 3
C15_Witness ==
    /\ extracted
    /\ Len(diff_info[1].commits) = 2
    /\ hash_set(diff_info[1].commits[1].files_changed) = {PathA, PathB}
    /\ hash_set(diff_info[1].commits[2].files_changed) = {PathB, PathC}
    /\ diff_info[1].total_files_changed = 3

\* the patch of one modified file p: its header lines are
\* 'diff --git a/p b/p', '--- a/p' and '+++ b/p'
patch_of_modified(p, text) ==
    format_diff(<<[path |-> p, kind |-> "modified", text |-> text]>>)

\* C16 as stated: for every path p, the extraction from a patch with the
\* header lines 'diff --git a/p b/p', '--- a/p', '+++ b/p' yields the single
\* path p.
C16_SinglePath ==
    extracted =>
        \A i \in 1..Len(diff_info[1].commits) :
            \A p \in hash_set(DiffPaths), text \in HunkTexts :
                diff_info[1].commits[i].diff = patch_of_modified(p, text)
                    => diff_info[1].commits[i].files_changed = <<p>>

DevNullLines == { Plus3Sp \o DevNull, Minus3Sp \o DevNull }

\* the text without its '+++ /dev/null' and '--- /dev/null' lines
without_dev_null(diff) ==
    join_lines(SelectSeq(lines(diff), LAMBDA l : l \notin DevNullLines))

\* C17: a line '+++ /dev/null' or '--- /dev/null' of a patch contributes no
\* path: the extraction yields no path for the line, and the files extracted
\* from the patch are those extracted from the patch without these lines.
C17_DevNullSkipped ==
    extracted =>
        \A i \in 1..Len(diff_info[1].commits) :
            LET c == diff_info[1].commits[i]
            IN  /\ \A l \in hash_set(lines(c.diff)) \cap DevNullLines :
                       extract_path(l) = None
                /\ hash_set(c.files_changed) = extracted_paths(without_dev_null(c.diff))

\* the staged diff of an added file, with its '--- /dev/null' line, has been
\* extracted and names the file only
C17_Witness ==
    /\ extracted
    /\ tree_diffs.staged = <<[path |-> PathA, kind |-> "added", text |-> <<"x">>]>>
    /\ Len(diff_info[1].commits) = 1
    /\ Minus3Sp \o DevNull \in hash_set(lines(diff_info[1].commits[1].diff))
    /\ diff_info[1].commits[1].files_changed = <<PathA>>

\* the calls of the remote-repository API: repository info, pull request
GithubCalls == {"github get repository", "github create pull request"}

calls_to(cs, cmds) == { i \in 1..Len(cs) : cs[i].cmd \in cmds }

\* C18: the remote-repository API is called only by the collaborator calls
\* of the 'create PR with AI description' action; that action is started
\* only by Enter in Main on its menu entry, and only when a GitHub token is
\* configured.  No other key in any mode leads to a call of the API.
C18_GithubOnlyFromCreatePr ==
    [][ /\ calls_to(calls', GithubCalls) # {} =>
              /\ pc = "awaiting"
              /\ task.pending = "create_pr"
              /\ key_event = "Enter"
              /\ cli.config.has_github_token
        /\ (task'.pending = "create_pr" /\ task.pending # "create_pr") =>
              /\ KeyPress("Enter")
              /\ MainActive(cli)
              /\ cli.current_tab = 1
              /\ cli.list_state = Some(1)
              /\ cli.config.has_github_token ]_vars

\* the pull request has been created from the AI tab
C18_Witness ==
    /\ pc = "resume"
    /\ key_event = "Enter"
    /\ task.pending = "create_pr"
    /\ cli.config.has_github_token
    /\ cli.current_tab = 1
    /\ calls_to(calls, {"github get repository"}) = {5}
    /\ calls_to(calls, {"github create pull request"}) = {6}

OpenAiCalls == {"openai chat completion"}

\* the actions whose answer is displayed as it comes from call_openai_api
DisplayedAsAnswered == {"pr_description", "improve", "changelog", "review"}

\* C19: without an API key call_openai_api returns Ok with the placeholder
\* text, which contains 'AI Feature Unavailable', and makes no call out of
\* the process: it adds no call and never fails, whatever the oracle of the
\* step, and the actions that display its answer display the placeholder.
C19_NoKeyPlaceholder ==
    [][ (pc = "awaiting" /\ ~cli.config.has_openai_key) =>
          /\ calls_to(calls', OpenAiCalls) = {}
          /\ (pc' = "resume" /\ task.pending \in DisplayedAsAnswered) =>
                /\ task'.content = placeholder
                /\ \E i \in 1..Len(task'.content) : task'.content[i] = AiUnavailable
          /\ task.pending = "improve" => (pc' = "resume" /\ calls' = <<>>)
          /\ \A fail_at \in 0..1, reply \in AiReplies :
                LET y == call_openai_api(Ctx(fail_at, TRUE, TRUE), reply)
                IN  /\ y.res = "ok"
                    /\ y.calls = <<>>
                    /\ \E i \in 1..Len(y.content) : y.content[i] = AiUnavailable
      ]_vars

\* 'Improve commit message' without an API key has produced the placeholder
C19_Witness ==
    /\ pc = "resume"
    /\ ~cli.config.has_openai_key
    /\ task.pending = "improve"
    /\ task.content = placeholder
    /\ calls = <<>>

\* the status text has a line of fewer than three characters
has_short_line(text) == \E i \in 1..Len(lines(text)) : Len(lines(text)[i]) < 3

\* the file-list entries of the lines of three or more characters
RECURSIVE entries_coded(_)
entries_coded(ls) ==
    IF ls = <<>> THEN <<>>
    ELSE LET l == Head(ls)
         IN  (IF Len(l) >= 3 /\ <<l[1], l[2]>> \in TableCodes
              THEN <<[path |-> [i \in 1..(Len(l) - 3) |-> l[i + 3]],
                      status |-> CASE <<l[1], l[2]>> \in {<<SP, "M">>, <<SP, "D">>}
                                        -> "Modified"
                                   [] <<l[1], l[2]>> = <<"?", "?">> -> "Untracked"
                                   [] OTHER -> "Staged",
                      selected |-> FALSE]>>
              ELSE <<>>)
             \o entries_coded(Tail(ls))

\* C20 as stated: a status text with a line of fewer than three characters
\* is scanned to its end by the status refresh and by the file-list builder:
\* the short line adds no entry and the other lines are listed as usual.
C20_ShortLinesSkipped ==
    has_short_line(repo.porcelain) =>
        /\ pc # "panicked"
        /\ status_refreshed =>
              /\ cli.git_status.staged_files
                     = paths_coded(lines(repo.porcelain), StagedCodes)
              /\ cli.git_status.unstaged_files
                     = paths_coded(lines(repo.porcelain), UnstagedCodes)
              /\ cli.git_status.untracked_files
                     = paths_coded(lines(repo.porcelain), UntrackedCodes)
        /\ (pc = "dispatched" /\ key_event = "f") =>
              cli.file_items = entries_coded(lines(repo.porcelain))

\* C21 as stated: in FileStaging, whatever navigation, toggles, stage-all and
\* unstage-all were done, the file cursor is an index into the file list
\* when the list has items and is cleared when the list is empty.
C21_FileCursorInRange ==
    cli.in_file_mode =>
        IF Len(cli.file_items) > 0
        THEN in_range(cli.file_list_state, Len(cli.file_items))
        ELSE cli.file_list_state = None

\* what the suggestion list can hold when the chat completion answered with
\* at least one non-blank line or with the placeholder
AiSuggestions ==
    ({ SelectSeq(r, non_blank) : r \in AiReplies } \cup { SelectSeq(placeholder, non_blank) })
        \ {<<>>}

\* C22 as stated: with staged changes, once the commit action has asked for
\* suggestions, it goes on to CommitSelection, with the three placeholder
\* suggestions when the generation failed or answered nothing, and
\* CommitSelection is entered with the cursor on the first suggestion.
C22_FallbackSuggestions ==
    [][ /\ (/\ pc = "awaiting"
            /\ task.pending = "commit"
            /\ has_staged_changes(repo.porcelain)
            /\ calls_to(calls', OpenAiCalls) # {}) =>
               /\ pc' = "resume"
               /\ task'.next = "enter_commit_mode"
               /\ cli'.commit_suggestions \in AiSuggestions \cup {FallbackSuggestions}
        /\ (pc = "resume" /\ task.next = "enter_commit_mode" /\ pc' = "dispatched") =>
               /\ cli'.in_commit_mode
               /\ cli'.commit_list_state = Some(0)
               /\ cli'.commit_suggestions = cli.commit_suggestions ]_vars

\* the struct without the spinner frame, which the top of an iteration
\* advances before any key is read
without_spinner(c) == [c EXCEPT !.loading_spinner = 0]

sets_quit(c, key) ==
    \/ /\ key = "q"
       /\ c.in_loading_mode \/ (~c.in_commit_mode /\ ~c.in_file_mode)
    \/ /\ key = "Enter"
       /\ MainActive(c)
       /\ c.current_tab = 2
       /\ c.list_state = Some(2)

\* C24: an iteration dispatches at most one key press, read at the top of the
\* loop; the quit flag is raised only by that dispatch, on 'q' in Main,
\* ContentDisplay or Loading or on Exit of the Utilities tab; once it is up,
\* the check at the end of the same iteration leaves the loop, and nothing is
\* drawn or dispatched any more: the teardown follows and run() returns.
C24_QuitEndsLoop ==
    /\ [](cli.should_quit => pc \in {"dispatched", "teardown"})
    /\ [](key_event # NoKeyEvent => pc \in {"dispatched", "awaiting", "resume"})
    /\ [][ /\ (key_event' # NoKeyEvent /\ key_event' # key_event) =>
                  (pc = "loop" /\ key_event = NoKeyEvent)
           /\ (~cli.should_quit /\ cli'.should_quit) =>
                  (pc = "loop" /\ pc' = "dispatched" /\ sets_quit(cli, key_event'))
           /\ (pc = "loop" /\ pc' = "dispatched" /\ sets_quit(cli, key_event')) =>
                  cli'.should_quit
           /\ (pc = "dispatched" /\ cli.should_quit) => pc' = "teardown"
           /\ pc = "teardown" => pc' \in Returned
           /\ pc \in Returned => pc' = pc ]_vars

\* the loop was left by Exit of the Utilities tab or by 'q' from ContentDisplay
C24_Witness ==
    /\ pc = "teardown"
    /\ cli.should_quit
    /\ \/ cli.current_tab = 2 /\ cli.list_state = Some(2)
       \/ cli.in_display_mode

\* C25 as stated: in Main, navigation moves over the table that is drawn:
\* the two tables are the same for the current tab, Down steps through every
\* drawn item and wraps only after the last one, Up wraps from the first
\* drawn item to the last one.
C25_OneItemTable ==
    [][ (/\ pc = "loop"
         /\ MainActive(cli)
         /\ cli.list_state # None
         /\ pc' = "dispatched"
         /\ key_event' \in {"Up", "Down"}) =>
            LET drawn == render_menu_items(cli.current_tab)
                cur   == cli.list_state[1]
            IN  /\ get_current_menu_items(cli.current_tab) = drawn
                /\ key_event' = "Down" =>
                       cli'.list_state = Some((cur + 1) % Len(drawn))
                /\ key_event' = "Up" =>
                       cli'.list_state = Some((cur + Len(drawn) - 1) % Len(drawn)) ]_vars

\* a line the file-list builder recognizes: a code of the table and a path
recognized(l) == Len(l) >= 3 /\ SubSeq(l, 1, 2) \in TableCodes

\* a line coded 'AM' or 'MM'
both_coded(l) == Len(l) >= 3 /\ SubSeq(l, 1, 2) \in {<<"A", "M">>, <<"M", "M">>}

\* `path` is in the list `files`
listed(files, path) == \E i \in 1..Len(files) : files[i] = path

\* C26: when the file list has been built from a status text that the status
\* refresh scanned too, it holds one entry per recognized line, in line
\* order, with the path of the line; a line coded 'AM' or 'MM' gives one
\* entry, marked Staged, while its path is in the staged and in the unstaged
\* list, so the three status lists together have as many paths as the file
\* list has entries plus the number of 'AM' / 'MM' lines.
C26_FileListRefinesStatus ==
    (pc = "dispatched" /\ key_event = "f" /\ cli.in_file_mode) =>
        LET rec  == SelectSeq(lines(repo.porcelain), recognized)
            both == SelectSeq(lines(repo.porcelain), both_coded)
            gs   == cli.git_status
        IN  /\ Len(cli.file_items) = Len(rec)
            /\ \A i \in 1..Len(rec) :
                  /\ cli.file_items[i].path = SubSeq(rec[i], 4, Len(rec[i]))
                  /\ both_coded(rec[i]) =>
                        /\ cli.file_items[i].status = "Staged"
                        /\ listed(gs.staged_files, cli.file_items[i].path)
                        /\ listed(gs.unstaged_files, cli.file_items[i].path)
            /\ Len(gs.staged_files) + Len(gs.unstaged_files) + Len(gs.untracked_files)
                   = Len(cli.file_items) + Len(both)

\* the file list built from a text with an 'AM' line and a line of another
\* recognized code: two entries, three paths in the status lists
C26_Witness ==
    /\ pc = "dispatched"
    /\ key_event = "f"
    /\ cli.in_file_mode
    /\ Len(cli.file_items) = 2
    /\ \E i \in 1..2 : both_coded(lines(repo.porcelain)[i])
    /\ \E i \in 1..2 : ~both_coded(lines(repo.porcelain)[i])
    /\ Len(cli.git_status.staged_files) + Len(cli.git_status.unstaged_files)
           + Len(cli.git_status.untracked_files) = 3

\* C27: in FileStaging, the iteration that handles Esc ends in Main with the
\* file list empty and the file cursor cleared, having queried the backend
\* for the branch and the status and nothing else, and the status lists are
\* those of the backend's present status text; the backend itself is
\* untouched.  The iteration cannot end otherwise, except by run()
\* returning the error of a failed query, so no key is handled before the
\* refresh.
C27_EscRefreshes ==
    [][ (pc = "loop" /\ cli.in_file_mode /\ KeyPress("Esc")) =>
            /\ pc' \in {"dispatched", "returned_err"}
            /\ repo' = repo
            /\ pc' = "dispatched" =>
                  /\ MainActive(cli')
                  /\ cli'.file_items = <<>>
                  /\ cli'.file_list_state = None
                  /\ Len(calls') = 2
                  /\ calls'[1].cmd = "git branch --show-current"
                  /\ calls'[2].cmd = "git status --porcelain"
                  /\ status_fresh(cli', repo'.porcelain) ]_vars

\* Esc has been handled after the file list was left with a staged path
C27_Witness ==
    /\ pc = "dispatched"
    /\ key_event = "Esc"
    /\ status_refreshed
    /\ MainActive(cli)
    /\ cli.file_items = <<>>
    /\ cli.file_list_state = None
    /\ cli.git_status.staged_files # <<>>
    /\ cli.git_status.unstaged_files # <<>>

\* C28: the current tab is always 0, 1 or 2.  In Main, Tab takes tab t to
\* (t + 1) mod 3 and Shift-Tab takes it to (t + 2) mod 3, each undoes the
\* other, and after either key the menu cursor is on the first item; neither
\* key changes anything else or calls a collaborator.
C28_TabsCycle ==
    /\ [](cli.current_tab \in 0..(NumTabs - 1))
    /\ [][ (pc = "loop" /\ MainActive(cli)) =>
              /\ KeyPress("Tab") =>
                    /\ pc' = "dispatched"
                    /\ cli' = [cli EXCEPT !.current_tab = (@ + 1) % NumTabs,
                                          !.list_state = Some(0)]
                    /\ prev_tab(ctx_of(cli')).cli.current_tab = cli.current_tab
                    /\ calls' = <<>>
              /\ KeyPress("BackTab") =>
                    /\ pc' = "dispatched"
                    /\ cli' = [cli EXCEPT !.current_tab = (@ + NumTabs - 1) % NumTabs,
                                          !.list_state = Some(0)]
                    /\ next_tab(ctx_of(cli')).cli.current_tab = cli.current_tab
                    /\ calls' = <<>> ]_vars

\* Tab has wrapped from the last tab to the first
C28_Witness ==
    /\ pc = "dispatched"
    /\ key_event = "Tab"
    /\ MainActive(cli)
    /\ cli.current_tab = 0
    /\ cli.list_state = Some(0)

\* Shift-Tab has wrapped from the first tab to the last
C28_WitnessBack ==
    /\ pc = "dispatched"
    /\ key_event = "BackTab"
    /\ MainActive(cli)
    /\ cli.current_tab = NumTabs - 1
    /\ cli.list_state = Some(0)

\* C29: in ContentDisplay a key makes no collaborator call and leaves the
\* backend alone; Esc leads to Main with the title and the content cleared,
\* 'q' raises the quit flag, and any other key changes nothing at all.
C29_DisplayReadOnly ==
    [][ \A key \in Keys :
          (pc = "loop" /\ cli.in_display_mode /\ KeyPress(key)) =>
              /\ pc' = "dispatched"
              /\ calls' = <<>>
              /\ repo' = repo
              /\ cli' = CASE key = "Esc" -> [cli EXCEPT !.in_display_mode = FALSE,
                                                         !.display_content = <<>>,
                                                         !.display_title = ""]
                          [] key = "q"   -> [cli EXCEPT !.should_quit = TRUE]
                          [] OTHER       -> cli
              /\ key = "Esc" => MainActive(cli') ]_vars

\* 'q' has been handled over a displayed text
C29_Witness ==
    /\ pc = "dispatched"
    /\ key_event = "q"
    /\ cli.in_display_mode
    /\ cli.display_content # <<>>
    /\ cli.should_quit

\* Enter has been handled over a displayed text and nothing was called
C29_WitnessOther ==
    /\ pc = "dispatched"
    /\ key_event = "Enter"
    /\ cli.in_display_mode
    /\ cli.display_content # <<>>
    /\ calls = <<>>

\* C30: when the calls of the commit action return, the staged-change
\* extraction has built at most one commit record: one record with the id
\* 'STAGED' exactly when the diff of HEAD and index touches a file, none
\* otherwise.  With no record the action makes no further call and ends in
\* Main with the loading overlay down and no suggestions; with a record it
\* does not end there.
C30_StagedRecord ==
    [][ /\ (pc = "awaiting" /\ task.pending = "commit" /\ pc' = "resume") =>
              LET deltas == index_diff(repo.porcelain)
              IN  /\ \A commits \in staged_commits(deltas) :
                        /\ Len(commits) <= 1
                        /\ Len(commits) = 1 <=> deltas # <<>>
                        /\ Len(commits) = 1 => commits[1].hash = "STAGED"
                  /\ deltas = <<>> =>
                        /\ task'.next = "return"
                        /\ calls_to(calls', OpenAiCalls) = {}
                        /\ ~cli'.in_loading_mode
                        /\ cli'.loading_message = ""
                        /\ cli'.commit_suggestions = <<>>
                  /\ deltas # <<>> => task'.next = "enter_commit_mode"
        /\ (pc = "resume" /\ task.pending = "commit" /\ task.next = "return"
               /\ pc' = "dispatched") =>
              /\ MainActive(cli')
              /\ cli'.loading_message = ""
              /\ cli'.commit_suggestions = <<>>
              /\ cli'.commit_list_state = None ]_vars

\* the commit action has ended in Main on a work tree with an edited file
\* and nothing staged
C30_Witness ==
    /\ pc = "dispatched"
    /\ key_event = "Enter"
    /\ cli.current_tab = 0
    /\ cli.list_state = Some(2)
    /\ MainActive(cli)
    /\ cli.commit_suggestions = <<>>
    /\ cli.git_status.unstaged_files # <<>>
    /\ index_diff(repo.porcelain) = <<>>

\* C30, the extraction on arbitrary staged diffs: get_staged_changes returns
\* no record for the empty diff and one record with the id 'STAGED'
\* otherwise.
C30_AtMostOneRecord ==
    [][ (GetStagedChanges /\ diff_info' # None) =>
            LET commits == diff_info'[1].commits
            IN  /\ Len(commits) <= 1
                /\ Len(commits) = 1 <=> tree_diffs.staged # <<>>
                /\ Len(commits) = 1 => commits[1].hash = "STAGED" ]_vars

\* C31: the step from construction to the first iteration of the loop makes
\* one status refresh (the branch query and the status query, nothing else)
\* and ends in Main: the four mode flags are false, the current tab is 0,
\* the menu cursor is on item 0, the quit flag is false, and the status
\* lists are those of the backend's status text.
C31_StartsInMain ==
    [][ (pc = "start" /\ pc' = "loop") =>
            /\ Len(calls') = 2
            /\ calls'[1].cmd = "git branch --show-current"
            /\ calls'[2].cmd = "git status --porcelain"
            /\ status_fresh(cli', repo'.porcelain)
            /\ repo' = repo
            /\ MainActive(cli')
            /\ cli'.current_tab = 0
            /\ cli'.list_state = Some(0)
            /\ ~cli'.should_quit
            /\ cli'.commit_suggestions = <<>>
            /\ cli'.file_items = <<>>
            /\ cli'.display_content = <<>> ]_vars

\* the loop is about to run its first iteration on a work tree with an
\* edited and an untracked file
C31_Witness ==
    /\ pc = "loop"
    /\ status_refreshed
    /\ key_event = NoKeyEvent
    /\ MainActive(cli)
    /\ cli.current_tab = 0
    /\ cli.list_state = Some(0)
    /\ cli.git_status.unstaged_files # <<>>
    /\ cli.git_status.untracked_files # <<>>

\* the working-tree status a refresh of the status text produces from
\* scratch
snapshot_of(text) ==
    LET sc == scan_status(text)
    IN  [branch          |-> CurrentBranch,
         status          |-> status_text(Len(sc.staged_files) + Len(sc.unstaged_files)
                                             + Len(sc.untracked_files)),
         staged_files    |-> sc.staged_files,
         unstaged_files  |-> sc.unstaged_files,
         untracked_files |-> sc.untracked_files]

\* C32: when a status refresh has run to its end, the working-tree status
\* is what the backend's present status text yields from empty lists,
\* whatever the previous snapshot held; a refresh in Main of an unchanged
\* backend ('r') therefore leaves the status, and the whole struct, as it
\* was.
C32_RefreshWholesale ==
    /\ [](status_refreshed => cli.git_status = snapshot_of(repo.porcelain))
    /\ [][ (pc = "loop" /\ MainActive(cli) /\ KeyPress("r") /\ pc' = "dispatched") =>
              /\ repo' = repo
              /\ cli'.git_status = snapshot_of(repo.porcelain)
              /\ cli.git_status = snapshot_of(repo.porcelain) => cli' = cli ]_vars

\* a refresh has replaced a snapshot taken before a path was staged: the
\* path is in the staged list only
C32_Witness ==
    /\ status_refreshed
    /\ pc = "dispatched"
    /\ key_event = "Esc"
    /\ cli.git_status.staged_files = <<PathA>>
    /\ cli.git_status.unstaged_files = <<>>
    /\ cli.git_status.untracked_files = <<PathB>>

\* 'r' has been handled in Main
C32_WitnessAgain ==
    /\ status_refreshed
    /\ pc = "dispatched"
    /\ key_event = "r"
    /\ MainActive(cli)
    /\ cli.git_status.unstaged_files # <<>>

\* C33 as stated: the commit records get_diff_info has returned for a
\* history are the only ones an invocation on that history can return,
\* files_changed lists included.
C33_RangeDeterministic ==
    (/\ pc = "returned_ok"
     /\ diff_info # None
     /\ tree_diffs.history # <<>>
     /\ diff_info[1].commits # <<>>) =>
        \A commits \in commit_infos(tree_diffs.history, 1) :
            diff_info[1].commits = commits

\* C34: whenever CommitSelection is the active mode, the suggestion list is
\* non-empty and the commit cursor is an index into it.
C34_CommitListNonEmpty ==
    cli.in_commit_mode =>
        /\ cli.commit_suggestions # <<>>
        /\ in_range(cli.commit_list_state, Len(cli.commit_suggestions))

\* Up has wrapped the commit cursor from the first to the last of several
\* suggestions
C34_Witness ==
    /\ pc = "dispatched"
    /\ key_event = "Up"
    /\ cli.in_commit_mode
    /\ Len(cli.commit_suggestions) >= 2
    /\ cli.commit_list_state = Some(Len(cli.commit_suggestions) - 1)

\* C35: at the top of an iteration, where the loop draws and reads a key,
\* the suggestion list is empty unless CommitSelection is active, the file
\* list is empty unless FileStaging is active, and the display title and
\* content are empty unless ContentDisplay is active.
C35_ModeDataScoped ==
    pc = "loop" =>
        /\ ~cli.in_commit_mode => cli.commit_suggestions = <<>>
        /\ ~cli.in_file_mode => cli.file_items = <<>>
        /\ ~cli.in_display_mode =>
              (cli.display_title = "" /\ cli.display_content = <<>>)

\* Main is active at the top of an iteration after a path was staged, and
\* no data of the other modes is held
C35_Witness ==
    /\ pc = "loop"
    /\ MainActive(cli)
    /\ cli.git_status.staged_files # <<>>
    /\ cli.commit_suggestions = <<>>
    /\ cli.file_items = <<>>
    /\ cli.display_content = <<>>

\* C36: at the top of an iteration, where the loop draws, advances the
\* spinner and polls for a key, the loading flag is false, the loading
\* message is empty and the spinner frame is 0: the overlay is never drawn
\* and the Loading branch of the key dispatch is never taken.
C36_NeverLoadingInLoop ==
    /\ [](pc \in {"loop", "dispatched", "teardown"} =>
              /\ ~cli.in_loading_mode
              /\ cli.loading_message = ""
              /\ cli.loading_spinner = 0)
    /\ [][ cli.in_loading_mode => pc' \in {"resume", "returned_err", "panicked"} ]_vars

\* the loop is at the top of an iteration in CommitSelection, which is
\* entered only by an action that put the overlay up
C36_Witness ==
    /\ pc = "loop"
    /\ cli.in_commit_mode
    /\ cli.commit_suggestions # FallbackSuggestions
    /\ ~cli.in_loading_mode
    /\ cli.loading_message = ""
    /\ cli.loading_spinner = 0

\* the keys bound in FileStaging and in CommitSelection
FileKeys   == {"Up", "Down", "Space", "a", "u", "Esc"}
CommitKeys == {"Up", "Down", "Enter", "Esc"}

bound_keys(c) == IF c.in_commit_mode THEN CommitKeys ELSE FileKeys

list_mode(c) == ~c.in_loading_mode /\ (c.in_commit_mode \/ c.in_file_mode)

\* C37 (as the code behaves): in FileStaging and in CommitSelection no key
\* raises the quit flag, 'q' included, and a key that is not bound in the
\* mode changes nothing and calls nothing.  A key handled there leaves the
\* controller in the same mode, or in Main after Esc, or in Main after an
\* Enter that committed from CommitSelection; otherwise its handler failed
\* and run() is over.  So the quit check never ends the loop from these
\* modes.
C37_QuitUnbound ==
    [][ (pc = "loop" /\ list_mode(cli)) =>
            /\ \A key \in Keys \ bound_keys(cli) :
                  LET x == key_action(Ctx(1, TRUE, TRUE), key)
                  IN  /\ x.res = "ok"
                      /\ x.susp = "none"
                      /\ x.cli = cli
                      /\ x.calls = <<>>
                      /\ x.repo = repo
            /\ pc' \in {"loop", "dispatched", "returned_err", "panicked"}
            /\ ~cli'.should_quit
            /\ pc' = "dispatched" =>
                  \/ mode_flags(cli') = mode_flags(cli)
                  \/ key_event' = "Esc" /\ MainActive(cli')
                  \/ /\ cli.in_commit_mode
                     /\ key_event' = "Enter"
                     /\ MainActive(cli')
                     /\ commit_calls(calls') # {} ]_vars

\* 'q' has been handled in FileStaging over a non-empty file list
C37_Witness ==
    /\ pc = "dispatched"
    /\ key_event = "q"
    /\ cli.in_file_mode
    /\ cli.file_items # <<>>
    /\ ~cli.should_quit

\* 'q' has been handled in CommitSelection
C37_WitnessCommit ==
    /\ pc = "dispatched"
    /\ key_event = "q"
    /\ cli.in_commit_mode
    /\ ~cli.should_quit

\* C37 as stated: a key handled in FileStaging or CommitSelection leaves the
\* controller in that mode unless the key is Esc, so that the loop cannot
\* end before Esc has returned to Main.
C37_OnlyEscLeaves ==
    [][ (/\ pc = "loop"
         /\ list_mode(cli)
         /\ pc' = "dispatched") =>
            (mode_flags(cli') = mode_flags(cli) \/ key_event' = "Esc") ]_vars

RECURSIVE header_lines(_)
header_lines(deltas) ==
    IF deltas = <<>> THEN <<>>
    ELSE LET ls == delta_lines(Head(deltas))
         IN  SubSeq(ls, 1, Len(ls) - 2) \o header_lines(Tail(deltas))

\* C39 as stated: the paths get_staged_changes stores for a staged diff are
\* the paths that the file-header lines of its patch yield; a hunk content
\* line contributes no path.
C39_HunkLinesSilent ==
    (extracted /\ tree_diffs.staged # <<>> /\ Len(diff_info[1].commits) = 1) =>
        hash_set(diff_info[1].commits[1].files_changed)
            = extracted_paths(join_lines(header_lines(tree_diffs.staged)))

\* the struct c with the file cursor on the i-th entry
with_cursor(c, i) == [c EXCEPT !.file_list_state = Some(i - 1)]

\* C40: no entry of the file list has the status Deleted: the codes 'D ' and
\* ' D' give Staged and Modified.  So no step runs the remove command, and
\* a toggle of any entry of the list would not run it either.
C40_NoDeletedEntries ==
    /\ \A i \in 1..Len(cli.file_items) :
          /\ cli.file_items[i].status \in {"Staged", "Modified", "Untracked"}
          /\ cli.in_file_mode =>
                calls_to(toggle_file_staging(ctx_of(with_cursor(cli, i))).calls,
                         {"git rm"}) = {}
    /\ calls_to(calls, {"git rm"}) = {}

\* the file list of a status text with a line coded 'D ' and a line coded
\* ' D': a Staged and a Modified entry
C40_Witness ==
    /\ pc = "dispatched"
    /\ key_event = "f"
    /\ cli.in_file_mode
    /\ Len(cli.file_items) = 2
    /\ coded(repo.porcelain, cli.file_items[1].path, <<"D", SP>>)
    /\ cli.file_items[1].status = "Staged"
    /\ coded(repo.porcelain, cli.file_items[2].path, <<SP, "D">>)
    /\ cli.file_items[2].status = "Modified"

====
